---- MODULE Spec2Model ----
(***************************************************************************)
(* Model of the hdltree project model (hdltree/Analyzer.py): a Project     *)
(* holds an ordered list of Library objects; Library.add_cst folds the     *)
(* design units of one parsed DesignFile into the library's modules and    *)
(* packages.                                                               *)
(*                                                                         *)
(* Python str values are modelled as sequences of one-character strings,   *)
(* so that str.lower() and str.split(".") are computed and not assumed.    *)
(* The command-line driver (hdltree/cli.py), the ambiguity shaper and the   *)
(* parent links of the typed CST (hdltree/VhdlParseTreeTransformers.py),   *)
(* the formatting of CST nodes (hdltree/VhdlCstTransformer.py) and the     *)
(* older project model (hdltree/VhdlAstTransformer.py) each have their own *)
(* specification further down.                                             *)
(*                                                                         *)
(* Object references (the module returned by get_module, the package an    *)
(* InstancedPackage points to) are modelled as 1-based positions in the    *)
(* owning list, which never shrinks; 0 stands for "no object".             *)
(***************************************************************************)
EXTENDS Integers, Sequences, FiniteSets, TLC

VARIABLES libraries, last, driver, forest, parsed, formatted, threads

vars == <<libraries, last, driver, forest, parsed, formatted, threads>>

\* the state outside the project model: the command-line driver, the parse
\* forest in the ambiguity shaper, what parsing it gave, the CST node being
\* formatted and the concurrent callers of add_cst
others == <<driver, forest, parsed, formatted, threads>>

(***************************************************************************)
(* Bounds of the model.                                                    *)
(***************************************************************************)
MaxLibs == 2
MaxModules == 2
MaxPackages == 3
MaxFiles == 3
MaxAlts == 3
MaxPasses == 2

\* the statements of a generate statement body
MaxItems == 2

\* the interface declarations of a generic clause or port clause
MaxDecls == 2

\* the paths given as input, and as exclude, on the command line
MaxPaths == 2

\* concurrent callers of add_cst on one library
MaxThreads == 2

\* the objects of one call of _register_array_types
MaxObjects == 2

(***************************************************************************)
(* Python values.                                                          *)
(***************************************************************************)
\* the None object; distinct from every text (a text holds single characters)
None == <<"None-object">>

\* str(None)
NoneText == <<"N", "o", "n", "e">>

\* str(x) of a token or of None
Str(x) == IF x = None THEN NoneText ELSE x

\* Analyzer.nonestr
nonestr(val) == IF val # None THEN Str(val) ELSE None

\* one character of str.lower(), on the letters the inputs use
LowerChar(c) ==
    CASE c = "E" -> "e"
      [] c = "F" -> "f"
      [] c = "P" -> "p"
      [] c = "Q" -> "q"
      [] c = "W" -> "w"
      [] c = "O" -> "o"
      [] OTHER -> c

\* str.lower()
Lower(s) == [i \in 1..Len(s) |-> LowerChar(s[i])]

\* str.split("."): the pieces between the dots, empty pieces included
RECURSIVE SplitFrom(_, _, _)
SplitFrom(s, i, cur) ==
    IF i > Len(s) THEN <<cur>>
    ELSE IF s[i] = "." THEN <<cur>> \o SplitFrom(s, i + 1, <<>>)
    ELSE SplitFrom(s, i + 1, Append(cur, s[i]))

Split(s) == SplitFrom(s, 1, <<>>)

\* Name.format / SelectedName.format: prefix "." suffix
RECURSIVE NameFormat(_)
NameFormat(parts) ==
    IF Len(parts) = 0 THEN <<>>
    ELSE IF Len(parts) = 1 THEN parts[1]
    ELSE NameFormat(SubSeq(parts, 1, Len(parts) - 1)) \o <<".">> \o parts[Len(parts)]

(***************************************************************************)
(* Project model objects.                                                  *)
(***************************************************************************)
InterfaceNet(name, access, type, default, dir) ==
    [kind |-> "InterfaceNet", name |-> name, access |-> access, type |-> type,
     default |-> default, dir |-> dir]

InterfaceType(name) == [kind |-> "InterfaceType", name |-> name]

InterfaceSubprogram(name, default) ==
    [kind |-> "InterfaceSubprogram", name |-> name, default |-> default]

InterfacePackage(name, base_name) ==
    [kind |-> "InterfacePackage", name |-> name, base_name |-> base_name]

Subprogram(name) == [kind |-> "Subprogram", name |-> name]

\* DeclaredPackage(name, files): has_body False, parameters and subprograms empty
DeclaredPackage(name, files) ==
    [kind |-> "DeclaredPackage", name |-> name, files |-> files, has_body |-> FALSE,
     parameters |-> <<>>, subprograms |-> <<>>]

\* InstancedPackage(name, files, declaration, mapping)
InstancedPackage(name, files, declaration, mapping) ==
    [kind |-> "InstancedPackage", name |-> name, files |-> files,
     declaration |-> declaration, mapping |-> mapping]

\* Module(name, files): arch_name "", parameters and ports empty
Module(name, files) ==
    [name |-> name, files |-> files, arch_name |-> <<>>,
     parameters |-> <<>>, ports |-> <<>>]

\* Library(name)
Library(name) == [name |-> name, packages |-> <<>>, modules |-> <<>>]

\* File(path): hashed and compared by its path
File(path) == path

(***************************************************************************)
(* Module.add_entity and DeclaredPackage.add_package.  A clause that is    *)
(* absent (None) is modelled by an empty list of interface elements: the   *)
(* code skips an absent clause and loops zero times over an empty one.     *)
(***************************************************************************)
\* the generic constant loop entering the first name only
ConstantNets_FirstOnly(p) ==
    <<InterfaceNet(Str(p.identifier_list[1]), "constant", Str(p.subtype_indication),
                   nonestr(p.default), <<"i", "n">>)>>

\* one InterfaceNet per name of identifier_list, in order (generic constant)
ConstantNets(p) ==
    [i \in 1..Len(p.identifier_list) |->
        InterfaceNet(Str(p.identifier_list[i]), "constant", Str(p.subtype_indication),
                     nonestr(p.default), <<"i", "n">>)]

\* one InterfaceNet per name of identifier_list, in order (port signal)
SignalNets(p) ==
    [i \in 1..Len(p.identifier_list) |->
        InterfaceNet(Str(p.identifier_list[i]), "signal", Str(p.subtype_indication),
                     nonestr(p.default), Str(p.mode))]

\* the generic loop shared by add_entity and add_package: the parameters
\* appended so far and the error raised, if any
RECURSIVE AddGenerics(_, _, _)
AddGenerics(parameters, elems, i) ==
    IF i > Len(elems) THEN [parameters |-> parameters, err |-> ""]
    ELSE LET p == elems[i] IN
        IF p.kind = "InterfaceConstantDeclaration"
        THEN AddGenerics(parameters \o ConstantNets(p), elems, i + 1)
        ELSE IF p.kind = "InterfaceIncompleteTypeDeclaration"
        THEN AddGenerics(Append(parameters, InterfaceType(Str(p.identifier))), elems, i + 1)
        ELSE IF p.kind = "InterfaceSubprogramDeclaration"
        THEN AddGenerics(Append(parameters,
                 InterfaceSubprogram(Str(p.interface_subprogram_specification),
                                     nonestr(p.interface_subprogram_default))), elems, i + 1)
        ELSE IF p.kind = "InterfacePackageDeclaration"
        THEN AddGenerics(Append(parameters,
                 InterfacePackage(Str(p.identifier), Str(p.uninstantiated_package_name))),
                 elems, i + 1)
        ELSE [parameters |-> parameters, err |-> "BadGenericType"]

\* the port loop of add_entity
RECURSIVE AddPorts(_, _, _)
AddPorts(ports, elems, i) ==
    IF i > Len(elems) THEN [ports |-> ports, err |-> ""]
    ELSE LET p == elems[i] IN
        IF p.kind = "InterfaceSignalDeclaration"
        THEN AddPorts(ports \o SignalNets(p), elems, i + 1)
        ELSE [ports |-> ports, err |-> "BadPortType"]

\* Module.add_entity: the module as the call leaves it, and the error raised
add_entity(mod, ent) ==
    LET g == AddGenerics(mod.parameters, ent.generic_clause, 1)
        m1 == [mod EXCEPT !.parameters = g.parameters]
    IN  IF g.err # "" THEN [mod |-> m1, err |-> g.err]
        ELSE LET q == AddPorts(m1.ports, ent.port_clause, 1)
             IN  [mod |-> [m1 EXCEPT !.ports = q.ports], err |-> q.err]

\* the declarative-part loop of add_package: one Subprogram per subprogram
\* declaration or instantiation, other items skipped
RECURSIVE AddSubprograms(_, _, _)
AddSubprograms(subprograms, decs, i) ==
    IF i > Len(decs) THEN subprograms
    ELSE LET dec == decs[i] IN
        IF dec.kind = "SubprogramDeclaration"
        THEN AddSubprograms(Append(subprograms, Subprogram(Str(dec.designator))), decs, i + 1)
        ELSE IF dec.kind = "SubprogramInstantiationDeclaration"
        THEN AddSubprograms(Append(subprograms, Subprogram(dec.identifier)), decs, i + 1)
        ELSE AddSubprograms(subprograms, decs, i + 1)

\* DeclaredPackage.add_package
add_package(pkg, decl) ==
    LET g == AddGenerics(pkg.parameters, decl.generic_clause, 1)
        p1 == [pkg EXCEPT !.parameters = g.parameters]
    IN  IF g.err # "" THEN [pkg |-> p1, err |-> g.err]
        ELSE [pkg |-> [p1 EXCEPT !.subprograms =
                          AddSubprograms(p1.subprograms, decl.package_declarative_part, 1)],
              err |-> ""]

\* add_body that forgets to set the flag
add_body_NoFlag(pkg, body) == pkg

\* DeclaredPackage.add_body
add_body(pkg, body) == [pkg EXCEPT !.has_body = TRUE]

\* Module.add_arch
add_arch(mod, arch) == [mod EXCEPT !.arch_name = arch.identifier]

(***************************************************************************)
(* Library.                                                                *)
(***************************************************************************)
\* get_module comparing the names as written
get_module_CaseSensitive(lib, name) ==
    LET hits == {i \in 1..Len(lib.modules) : lib.modules[i].name = name}
    IN  IF hits = {} THEN 0 ELSE CHOOSE i \in hits : \A j \in hits : i <= j

\* Library.get_module: the first module whose lowered name matches, 0 for None
get_module(lib, name) ==
    LET hits == {i \in 1..Len(lib.modules) : Lower(lib.modules[i].name) = Lower(name)}
    IN  IF hits = {} THEN 0 ELSE CHOOSE i \in hits : \A j \in hits : i <= j

\* Library.get_package: the first package whose lowered name matches, 0 for None
get_package(lib, name) ==
    LET hits == {i \in 1..Len(lib.packages) : Lower(lib.packages[i].name) = Lower(name)}
    IN  IF hits = {} THEN 0 ELSE CHOOSE i \in hits : \A j \in hits : i <= j

\* the mapping loop counting positions from 1
GenericMapping_OneBased(association_list) ==
    [j \in 1..Len(association_list) |->
        LET m == association_list[j]
            idx == j
        IN  IF m.formal # None
            THEN [formal |-> Str(m.formal), actual |-> Str(m.actual)]
            ELSE [index |-> idx, actual |-> Str(m.actual)]]

\* the mapping loop of the PackageInstantiationDeclaration branch: enumerate()
\* counts from 0, a present formal gives its text, an absent one the index
GenericMapping(association_list) ==
    [j \in 1..Len(association_list) |->
        LET m == association_list[j]
            idx == j - 1
        IN  IF m.formal # None
            THEN [formal |-> Str(m.formal), actual |-> Str(m.actual)]
            ELSE [index |-> idx, actual |-> Str(m.actual)]]

\* the EntityDeclaration branch appending the module before extracting into it
FoldEntity_AppendFirst(lib, path, lu) ==
    LET name == Str(lu.identifier) IN
    IF get_module(lib, name) # 0 THEN [lib |-> lib, err |-> "EntityExists"]
    ELSE LET r == add_entity(Module(name, {File(path)}), lu) IN
         [lib |-> [lib EXCEPT !.modules = Append(@, r.mod)], err |-> r.err]

\* the EntityDeclaration branch of add_cst
FoldEntity(lib, path, lu) ==
    LET name == Str(lu.identifier) IN
    IF get_module(lib, name) # 0 THEN [lib |-> lib, err |-> "EntityExists"]
    ELSE LET r == add_entity(Module(name, {File(path)}), lu) IN
         IF r.err # "" THEN [lib |-> lib, err |-> r.err]
         ELSE [lib |-> [lib EXCEPT !.modules = Append(@, r.mod)], err |-> ""]

\* the ArchitectureBody branch without the arch_name test
FoldArchitecture_NoCheck(lib, path, lu) ==
    LET name == NameFormat(lu.entity_name)
        i == get_module(lib, name)
    IN  IF i # 0
        THEN [lib |-> [lib EXCEPT !.modules[i] = add_arch(@, lu)], err |-> ""]
        ELSE [lib |-> lib, err |-> "NoSuchEntity"]

\* the ArchitectureBody branch of add_cst
FoldArchitecture(lib, path, lu) ==
    LET name == NameFormat(lu.entity_name)
        i == get_module(lib, name)
    IN  IF i # 0
        THEN IF lib.modules[i].arch_name # <<>>
             THEN [lib |-> lib, err |-> "ArchitectureExists"]
             ELSE [lib |-> [lib EXCEPT !.modules[i] = add_arch(@, lu)], err |-> ""]
        ELSE [lib |-> lib, err |-> "NoSuchEntity"]

\* the PackageDeclaration branch of add_cst
FoldPackage(lib, path, lu) ==
    LET name == Str(lu.identifier) IN
    IF get_package(lib, name) # 0 THEN [lib |-> lib, err |-> "PackageExists"]
    ELSE LET r == add_package(DeclaredPackage(name, {File(path)}), lu) IN
         IF r.err # "" THEN [lib |-> lib, err |-> r.err]
         ELSE [lib |-> [lib EXCEPT !.packages = Append(@, r.pkg)], err |-> ""]

\* the PackageBody branch of add_cst; an InstancedPackage has no has_body
\* attribute, reading it raises AttributeError
FoldPackageBody(lib, path, lu) ==
    LET name == Str(lu.simple_name)
        i == get_package(lib, name)
    IN  IF i # 0
        THEN IF lib.packages[i].kind # "DeclaredPackage"
             THEN [lib |-> lib, err |-> "AttributeError"]
             ELSE IF lib.packages[i].has_body
             THEN [lib |-> lib, err |-> "BodyExists"]
             ELSE [lib |-> [lib EXCEPT !.packages[i] =
                               [add_body(@, lu) EXCEPT !.files = @ \cup {File(path)}]],
                   err |-> ""]
        ELSE [lib |-> lib, err |-> "NoSuchPackage"]

\* the PackageInstantiationDeclaration branch of add_cst; unpacking the split
\* name into (baselib, basepkg) raises unless it has exactly two pieces; an
\* absent generic_map_aspect (None) is the empty association list
FoldPackageInstantiation(lib, path, lu) ==
    LET inst == Str(lu.identifier)
        pkgname == NameFormat(lu.uninstantiated_package_name)
        pieces == Split(pkgname)
    IN  IF Len(pieces) # 2 THEN [lib |-> lib, err |-> "UnpackError"]
        ELSE LET basepkg == pieces[2]
                 i == get_package(lib, basepkg)
             IN  IF i # 0
                 THEN LET mapping == IF lu.generic_map_aspect # <<>>
                                     THEN GenericMapping(lu.generic_map_aspect)
                                     ELSE <<>>
                          newpkg == InstancedPackage(inst, {File(path)}, i, mapping)
                      IN  [lib |-> [lib EXCEPT !.packages = Append(@, newpkg)], err |-> ""]
                 ELSE [lib |-> lib, err |-> "NoSuchPackage"]

\* the loop of add_cst raising on a library unit it does not support
FoldUnit_RaiseUnsupported(lib, path, lu) ==
    IF lu.kind = "EntityDeclaration" THEN FoldEntity(lib, path, lu)
    ELSE IF lu.kind = "ArchitectureBody" THEN FoldArchitecture(lib, path, lu)
    ELSE IF lu.kind = "PackageDeclaration" THEN FoldPackage(lib, path, lu)
    ELSE IF lu.kind = "PackageBody" THEN FoldPackageBody(lib, path, lu)
    ELSE IF lu.kind = "PackageInstantiationDeclaration"
    THEN FoldPackageInstantiation(lib, path, lu)
    ELSE [lib |-> lib, err |-> "Unsupported"]

\* one iteration of the loop of add_cst: the library as the iteration leaves
\* it and the error it raised ("" for none)
FoldUnit(lib, path, lu) ==
    IF lu.kind = "EntityDeclaration" THEN FoldEntity(lib, path, lu)
    ELSE IF lu.kind = "ArchitectureBody" THEN FoldArchitecture(lib, path, lu)
    ELSE IF lu.kind = "PackageDeclaration" THEN FoldPackage(lib, path, lu)
    ELSE IF lu.kind = "PackageBody" THEN FoldPackageBody(lib, path, lu)
    ELSE IF lu.kind = "PackageInstantiationDeclaration"
    THEN FoldPackageInstantiation(lib, path, lu)
    ELSE [lib |-> lib, err |-> ""]

\* Library.add_cst: the loop over cst.design_units, stopped by the first raise.
\* k is the position of the last unit entered, before the library as that
\* unit found it
RECURSIVE add_cst_from(_, _, _, _)
add_cst_from(lib, path, units, k) ==
    IF k > Len(units) THEN [lib |-> lib, err |-> "", k |-> Len(units), before |-> lib]
    ELSE LET r == FoldUnit(lib, path, units[k]) IN
         IF r.err # "" THEN [lib |-> r.lib, err |-> r.err, k |-> k, before |-> lib]
         ELSE IF k = Len(units) THEN [lib |-> r.lib, err |-> "", k |-> k, before |-> lib]
         ELSE add_cst_from(r.lib, path, units, k + 1)

add_cst(lib, path, units) == add_cst_from(lib, path, units, 1)

(***************************************************************************)
(* Project.                                                                *)
(***************************************************************************)
\* add_library comparing the names as written
add_library_CaseSensitive(libs, name) ==
    IF \E i \in 1..Len(libs) : libs[i].name = name
    THEN [libraries |-> libs, err |-> "DuplicateLibrary"]
    ELSE [libraries |-> Append(libs, Library(name)), err |-> ""]

\* Project.add_library: the libraries as the call leaves them and the error
add_library(libs, name) ==
    IF \E i \in 1..Len(libs) : Lower(libs[i].name) = Lower(name)
    THEN [libraries |-> libs, err |-> "DuplicateLibrary"]
    ELSE [libraries |-> Append(libs, Library(name)), err |-> ""]

\* Project.get_library: the position of the first library whose lowered name
\* matches (0 when the call raises), the libraries as the call leaves them and
\* the error
get_library(libs, name) ==
    LET hits == {i \in 1..Len(libs) : Lower(libs[i].name) = Lower(name)}
    IN  IF hits # {}
        THEN [lib |-> CHOOSE i \in hits : \A j \in hits : i <= j,
              libraries |-> libs, err |-> ""]
        ELSE [lib |-> 0, libraries |-> libs, err |-> "NoSuchLibrary"]

(***************************************************************************)
(* The typed CST nodes add_cst reads, with the fields it reads.            *)
(***************************************************************************)
EntityDeclaration(identifier, generic_clause, port_clause) ==
    [kind |-> "EntityDeclaration", identifier |-> identifier,
     generic_clause |-> generic_clause, port_clause |-> port_clause]

ArchitectureBody(identifier, entity_name) ==
    [kind |-> "ArchitectureBody", identifier |-> identifier, entity_name |-> entity_name]

PackageDeclaration(identifier, generic_clause, package_declarative_part) ==
    [kind |-> "PackageDeclaration", identifier |-> identifier,
     generic_clause |-> generic_clause,
     package_declarative_part |-> package_declarative_part]

PackageBody(simple_name) == [kind |-> "PackageBody", simple_name |-> simple_name]

PackageInstantiationDeclaration(identifier, uninstantiated_package_name, generic_map_aspect) ==
    [kind |-> "PackageInstantiationDeclaration", identifier |-> identifier,
     uninstantiated_package_name |-> uninstantiated_package_name,
     generic_map_aspect |-> generic_map_aspect]

ContextDeclaration(identifier) == [kind |-> "ContextDeclaration", identifier |-> identifier]

AssociationElement(formal, actual) == [formal |-> formal, actual |-> actual]

InterfaceConstantDeclaration(identifier_list, subtype_indication, default) ==
    [kind |-> "InterfaceConstantDeclaration", identifier_list |-> identifier_list,
     subtype_indication |-> subtype_indication, default |-> default]

InterfaceIncompleteTypeDeclaration(identifier) ==
    [kind |-> "InterfaceIncompleteTypeDeclaration", identifier |-> identifier]

InterfaceSignalDeclaration(identifier_list, mode, subtype_indication, default) ==
    [kind |-> "InterfaceSignalDeclaration", identifier_list |-> identifier_list,
     mode |-> mode, subtype_indication |-> subtype_indication, default |-> default]

InterfaceVariableDeclaration(identifier_list, mode, subtype_indication, default) ==
    [kind |-> "InterfaceVariableDeclaration", identifier_list |-> identifier_list,
     mode |-> mode, subtype_indication |-> subtype_indication, default |-> default]

SubprogramDeclaration(designator) ==
    [kind |-> "SubprogramDeclaration", designator |-> designator]

(***************************************************************************)
(* The inputs the model draws from.                                        *)
(***************************************************************************)
Integer == <<"i", "n", "t", "e", "g", "e", "r">>
StdLogic == <<"s", "t", "d", "_", "l", "o", "g", "i", "c">>

\* n : integer := 8
GenN == InterfaceConstantDeclaration(<< <<"n">> >>, Integer, <<"8">>)
\* type t
GenT == InterfaceIncompleteTypeDeclaration(<<"t">>)
\* a declaration kind neither generic loop accepts
GenBad == InterfaceVariableDeclaration(<< <<"v">> >>, None, Integer, None)
\* a : in std_logic
PortA == InterfaceSignalDeclaration(<< <<"a">> >>, <<"i", "n">>, StdLogic, None)
\* function f return t
SubF == SubprogramDeclaration(<<"f">>)

\* the entities e, E, f and g (g has an unsupported generic, h an unsupported port)
EntityE == EntityDeclaration(<<"e">>, <<GenN>>, <<PortA>>)
EntityUpperE == EntityDeclaration(<<"E">>, <<>>, <<>>)
EntityF == EntityDeclaration(<<"f">>, <<>>, <<>>)
EntityG == EntityDeclaration(<<"g">>, <<GenN, GenBad>>, <<PortA>>)
EntityH == EntityDeclaration(<<"h">>, <<GenN>>, <<PortA, GenBad>>)
\* entity Foo is end; and its name as an architecture writes it
EntityFoo == EntityDeclaration(<<"F", "o", "o">>, <<>>, <<>>)
Foo == <<"f", "o", "o">>

\* generic map (n => 16)
MapNamed == <<AssociationElement(<<"n">>, <<"1", "6">>)>>
\* generic map (16, t => bit)
MapMixed == <<AssociationElement(None, <<"1", "6">>),
              AssociationElement(<<"t">>, <<"b", "i", "t">>)>>

\* DesignFile: cst.path and cst.design_units (each design unit given by its
\* library unit, du.library_unit.unit.children[0])
DesignFile(path, design_units) == [path |-> path, design_units |-> design_units]

DesignFiles ==
    {DesignFile("empty.vhd", <<>>),
     DesignFile("e.vhd", <<EntityE>>),
     DesignFile("e_upper.vhd", <<EntityUpperE>>),
     DesignFile("f.vhd", <<EntityF, ArchitectureBody(<<"r", "t", "l">>, << <<"f">> >>),
                           EntityG>>),
     DesignFile("h.vhd", <<EntityH>>),
     DesignFile("rtl.vhd", <<ArchitectureBody(<<"r", "t", "l">>, << <<"e">> >>)>>),
     DesignFile("a2.vhd", <<ArchitectureBody(<<"a", "2">>, << <<"E">> >>)>>),
     DesignFile("p.vhd", <<PackageDeclaration(<<"p">>, <<GenN, GenT>>, <<SubF>>)>>),
     DesignFile("p_upper.vhd", <<PackageDeclaration(<<"P">>, <<>>, <<>>)>>),
     DesignFile("s.vhd", <<PackageDeclaration(<<"s">>, <<GenT, GenBad>>, <<>>)>>),
     DesignFile("p_body.vhd", <<PackageBody(<<"P">>)>>),
     DesignFile("p_body2.vhd", <<PackageBody(<<"p">>)>>),
     DesignFile("q_body.vhd", <<PackageBody(<<"q">>)>>),
     DesignFile("q.vhd",
         <<PackageInstantiationDeclaration(<<"q">>, << <<"w">>, <<"p">> >>, MapMixed)>>),
     DesignFile("p_inst.vhd",
         <<PackageInstantiationDeclaration(<<"P">>, << <<"w">>, <<"p">> >>, <<>>)>>),
     DesignFile("q_plain.vhd",
         <<PackageInstantiationDeclaration(<<"q">>, << <<"p">> >>, <<>>)>>),
     DesignFile("r.vhd",
         <<PackageInstantiationDeclaration(<<"r">>, << <<"w">>, <<"q">> >>, MapNamed)>>),
     DesignFile("c.vhd", <<ContextDeclaration(<<"c">>)>>),
     DesignFile("mixed.vhd", <<EntityF, ContextDeclaration(<<"c">>),
                               PackageDeclaration(<<"P">>, <<>>, <<>>)>>)}

\* the files of a design whose entity is written Foo and referred to as foo
FooFiles ==
    {DesignFile("foo.vhd", <<EntityFoo, ArchitectureBody(<<"r", "t", "l">>, << Foo >>)>>),
     DesignFile("foo_of_x.vhd", <<ArchitectureBody(<<"F", "o", "o">>, << <<"x">> >>)>>)}

LibraryNames == {<<"w">>, <<"W">>, <<"o">>, <<"x">>}

\* the modules, and the packages, of all libraries of the project
RECURSIVE TotalModules(_)
TotalModules(libs) ==
    IF libs = <<>> THEN 0 ELSE Len(Head(libs).modules) + TotalModules(Tail(libs))

RECURSIVE TotalPackages(_)
TotalPackages(libs) ==
    IF libs = <<>> THEN 0 ELSE Len(Head(libs).packages) + TotalPackages(Tail(libs))

(***************************************************************************)
(* The state machine.  last records the latest call: its operation, its    *)
(* arguments, the error it raised ("" for none) and, for add_cst, the last *)
(* design unit entered (position k of n) with the library as that unit     *)
(* found it.                                                               *)
(***************************************************************************)
NoUnit == [kind |-> "none"]

\* the value of a state component a specification does not use
Idle == <<>>

Init ==
    /\ threads = Idle
    /\ libraries = <<>>
    /\ driver = Idle /\ forest = Idle /\ parsed = Idle /\ formatted = Idle
    /\ last = [op |-> "init", name |-> <<>>, lib |-> 0, path |-> "", n |-> 0, k |-> 0,
               unit |-> NoUnit, before |-> Library(<<>>), err |-> ""]

\* Project.add_library(name)
AddLibrary(name) ==
    LET r == add_library(libraries, name) IN
    /\ Len(r.libraries) <= MaxLibs
    /\ libraries' = r.libraries
    /\ last' = [op |-> "add_library", name |-> name, lib |-> 0, path |-> "", n |-> 0,
                k |-> 0, unit |-> NoUnit, before |-> Library(<<>>), err |-> r.err]
    /\ UNCHANGED others

\* Project.get_library(name)
GetLibrary(name) ==
    LET r == get_library(libraries, name) IN
    /\ libraries' = r.libraries
    /\ last' = [op |-> "get_library", name |-> name, lib |-> r.lib, path |-> "", n |-> 0,
                k |-> 0, unit |-> NoUnit, before |-> Library(<<>>), err |-> r.err]
    /\ UNCHANGED others

\* Library.add_cst(cst) on the l-th library
AddCst(l, cst) ==
    LET r == add_cst(libraries[l], cst.path, cst.design_units)
        libs == [libraries EXCEPT ![l] = r.lib]
    IN  /\ TotalModules(libs) <= MaxModules
        /\ TotalPackages(libs) <= MaxPackages
        /\ libraries' = libs
        /\ last' = [op |-> "add_cst", name |-> <<>>, lib |-> l, path |-> cst.path,
                    n |-> Len(cst.design_units), k |-> r.k,
                    unit |-> IF r.k = 0 THEN NoUnit ELSE cst.design_units[r.k],
                    before |-> r.before, err |-> r.err]
        /\ UNCHANGED others

\* the design files the project-level specification folds in
ProjectFiles ==
    {cst \in DesignFiles :
        cst.path \in {"e.vhd", "rtl.vhd", "p.vhd", "q.vhd"}}

\* a project: libraries are added by name and files folded into any of them
Next ==
    \/ \E name \in LibraryNames : AddLibrary(name)
    \/ \E l \in 1..Len(libraries), cst \in ProjectFiles : AddCst(l, cst)

Spec == Init /\ [][Next]_vars

\* a project whose libraries are added and looked up by name
LookupNext ==
    \/ \E name \in LibraryNames : AddLibrary(name)
    \/ \E name \in LibraryNames : GetLibrary(name)

LookupSpec == Init /\ [][LookupNext]_vars

\* one library, as add_library("w") leaves the project
LibraryInit ==
    /\ threads = Idle
    /\ libraries = add_library(<<>>, <<"w">>).libraries
    /\ driver = Idle /\ forest = Idle /\ parsed = Idle /\ formatted = Idle
    /\ last = [op |-> "add_library", name |-> <<"w">>, lib |-> 0, path |-> "", n |-> 0,
               k |-> 0, unit |-> NoUnit, before |-> Library(<<>>), err |-> ""]

\* every design file folded into that library, in any order, any number of times
LibraryNext == \E cst \in DesignFiles : AddCst(1, cst)

LibrarySpec == LibraryInit /\ [][LibraryNext]_vars

\* a project of the libraries w and o: entities with their architectures and
\* packages with their bodies folded in, in any order
GrowNext ==
    \/ \E name \in {<<"w">>, <<"W">>, <<"o">>} : AddLibrary(name)
    \/ \E l \in 1..Len(libraries) :
           \E cst \in {f \in DesignFiles :
                          f.path \in {"e.vhd", "rtl.vhd", "f.vhd", "p.vhd", "p_body.vhd"}} :
               AddCst(l, cst)

GrowSpec == Init /\ [][GrowNext]_vars

(***************************************************************************)
(* Concurrent callers of Library.add_cst.  The method takes no lock: the   *)
(* lookup that guards a name (get_module, get_package) and the append that *)
(* publishes the new element are separate steps of the caller, and another *)
(* caller's steps may run between them.  Each thread folds a file of one   *)
(* entity or package declaration into the library w.                       *)
(***************************************************************************)
\* add_cst up to the append: the existence test and the extraction into a new
\* Module or DeclaredPackage
add_cst_check(lib, path, lu) ==
    LET name == Str(lu.identifier) IN
    IF lu.kind = "EntityDeclaration"
    THEN IF get_module(lib, name) # 0 THEN [err |-> "EntityExists", obj |-> NoUnit]
         ELSE LET r == add_entity(Module(name, {File(path)}), lu) IN
              [err |-> r.err, obj |-> r.mod]
    ELSE IF get_package(lib, name) # 0 THEN [err |-> "PackageExists", obj |-> NoUnit]
         ELSE LET r == add_package(DeclaredPackage(name, {File(path)}), lu) IN
              [err |-> r.err, obj |-> r.pkg]

\* an append that looks the name up again under a lock
add_cst_append_Locked(lib, lu, obj) ==
    IF lu.kind = "EntityDeclaration"
    THEN IF get_module(lib, obj.name) # 0 THEN lib
         ELSE [lib EXCEPT !.modules = Append(@, obj)]
    ELSE IF get_package(lib, obj.name) # 0 THEN lib
         ELSE [lib EXCEPT !.packages = Append(@, obj)]

\* self.modules.append(mod), self.packages.append(pkg)
add_cst_append(lib, lu, obj) ==
    IF lu.kind = "EntityDeclaration"
    THEN [lib EXCEPT !.modules = Append(@, obj)]
    ELSE [lib EXCEPT !.packages = Append(@, obj)]

\* the library w and MaxThreads callers about to enter add_cst, each with a
\* file of one declaration
ThreadInit ==
    /\ libraries = add_library(<<>>, <<"w">>).libraries
    /\ driver = Idle /\ forest = Idle /\ parsed = Idle /\ formatted = Idle
    /\ last = [op |-> "add_library", name |-> <<"w">>, lib |-> 0, path |-> "", n |-> 0,
               k |-> 0, unit |-> NoUnit, before |-> Library(<<>>), err |-> ""]
    /\ threads \in [1..MaxThreads ->
                       {[pc |-> "check", cst |-> f, obj |-> NoUnit, err |-> "",
                         raced |-> FALSE] :
                            f \in {g \in DesignFiles :
                                      g.path \in {"e.vhd", "e_upper.vhd", "h.vhd",
                                                  "p_upper.vhd", "s.vhd"}}}]

\* thread t runs add_cst up to the append; raced notes that another thread
\* stood between its own test and its append at that moment
ThreadCheck(t) ==
    LET th == threads[t]
        r == add_cst_check(libraries[1], th.cst.path, th.cst.design_units[1])
    IN  /\ th.pc = "check"
        /\ threads' = [threads EXCEPT ![t] =
               [th EXCEPT !.pc = IF r.err # "" THEN "raised" ELSE "append",
                          !.obj = r.obj, !.err = r.err,
                          !.raced = \E u \in DOMAIN threads :
                                        u # t /\ threads[u].pc = "append"]]
        /\ UNCHANGED <<libraries, last, driver, forest, parsed, formatted>>

\* thread t appends what it built and returns
ThreadAppend(t) ==
    LET th == threads[t] IN
    /\ th.pc = "append"
    /\ libraries' = [libraries EXCEPT ![1] =
                        add_cst_append(@, th.cst.design_units[1], th.obj)]
    /\ threads' = [threads EXCEPT ![t].pc = "done"]
    /\ UNCHANGED <<last, driver, forest, parsed, formatted>>

ThreadNext ==
    \/ \E t \in DOMAIN threads : ThreadCheck(t)
    \/ \E t \in DOMAIN threads : ThreadAppend(t)

ThreadSpec == ThreadInit /\ [][ThreadNext]_vars

(***************************************************************************)
(* hdlparse: VhdlExtractor._register_array_types.  Names are compared as   *)
(* written.  A dict is the sequence of its items in insertion order.  The  *)
(* call is run statement by statement: driver holds its position (pc), the *)
(* registry array_types, the dict subtypes, the item the for loop is at    *)
(* (i, with its key k) and the name v the while loop has reached.          *)
(***************************************************************************)
\* the objects extract_objects hands over: VhdlType(name, package, type_of)
\* and VhdlSubtype(name, package, base_type)
Objects ==
    LET VhdlType(name, type_of) == [kind |-> "type", name |-> name, type_of |-> type_of]
        VhdlSubtype(name, base_type) ==
            [kind |-> "subtype", name |-> name, base_type |-> base_type]
    IN  {VhdlType("t", "array_type"), VhdlType("r", "record_type")}
        \cup {VhdlSubtype(n, b) : n \in {"a", "b", "c"},
                                  b \in {"a", "b", "t", "r", "signed"}}

\* VhdlExtractor(): the built-in array types, no call running
ExtractorInit ==
    /\ threads = Idle
    /\ libraries = <<>>
    /\ forest = Idle /\ parsed = Idle /\ formatted = Idle
    /\ last = [op |-> "init", name |-> <<>>, lib |-> 0, path |-> "", n |-> 0, k |-> 0,
               unit |-> NoUnit, before |-> Library(<<>>), err |-> ""]
    /\ driver = [pc |-> "idle",
                 array_types |-> {"std_ulogic_vector", "std_logic_vector", "signed",
                                  "unsigned", "bit_vector"},
                 subtypes |-> <<>>, i |-> 0, k |-> "", v |-> ""]

\* _register_array_types(objects) up to the for loop over subtypes.items():
\* the array types are added and the dict is built, a later subtype of one
\* name replacing the base type of the earlier one in place
RegisterCall(objects) ==
    LET types == {objects[j].name : j \in {n \in 1..Len(objects) :
                     objects[n].kind = "type" /\ objects[n].type_of = "array_type"}}
        subs == SelectSeq(objects, LAMBDA o : o.kind = "subtype")
        final(n) == subs[CHOOSE j \in 1..Len(subs) :
                            /\ subs[j].name = n
                            /\ \A m \in (j + 1)..Len(subs) : subs[m].name # n].base_type
        items[j \in 0..Len(subs)] ==
            IF j = 0 THEN <<>>
            ELSE IF \E m \in 1..(j - 1) : subs[m].name = subs[j].name THEN items[j - 1]
            ELSE Append(items[j - 1],
                        [name |-> subs[j].name, base_type |-> final(subs[j].name)])
    IN  /\ driver.pc = "idle"
        /\ driver' = [driver EXCEPT !.pc = "for",
                                    !.array_types = @ \cup types,
                                    !.subtypes = items[Len(subs)]]
        /\ UNCHANGED <<libraries, last, forest, parsed, formatted, threads>>

\* for k, v in subtypes.items(): the next item, or the return after the last
RegisterFor ==
    /\ driver.pc = "for"
    /\ driver' = IF driver.i < Len(driver.subtypes)
                 THEN [driver EXCEPT !.pc = "while", !.i = @ + 1,
                                     !.k = driver.subtypes[driver.i + 1].name,
                                     !.v = driver.subtypes[driver.i + 1].base_type]
                 ELSE [driver EXCEPT !.pc = "returned"]
    /\ UNCHANGED <<libraries, last, forest, parsed, formatted, threads>>

\* while v in subtypes: v = subtypes[v]; after the loop k is added when v is
\* an array type
RegisterWhile ==
    LET hits == {j \in 1..Len(driver.subtypes) : driver.subtypes[j].name = driver.v} IN
    /\ driver.pc = "while"
    /\ driver' = IF hits # {}
                 THEN [driver EXCEPT !.v = driver.subtypes[CHOOSE j \in hits : TRUE].base_type]
                 ELSE [driver EXCEPT !.pc = "for",
                                     !.array_types =
                                         IF driver.v \in @ THEN @ \cup {driver.k} ELSE @]
    /\ UNCHANGED <<libraries, last, forest, parsed, formatted, threads>>

RegisterNext ==
    \/ \E n \in 0..MaxObjects : \E objects \in [1..n -> Objects] : RegisterCall(objects)
    \/ RegisterFor
    \/ RegisterWhile

\* a call that was entered keeps running: the interpreter executes the next
\* statement as long as there is one
RegisterSpec ==
    ExtractorInit /\ [][RegisterNext]_vars /\ WF_vars(RegisterFor \/ RegisterWhile)

(***************************************************************************)
(* The older project model of hdltree/VhdlAstTransformer.py, which the     *)
(* driver of hdltree/hdltree.py uses: Project.get_library there finds or   *)
(* creates, Library.add_cst reads the library unit at children[1].         *)
(***************************************************************************)
\* _VhdlCstNode.children of a PrimaryUnit or SecondaryUnit: its one field
UnitChildren(lu) == <<lu>>

\* Library.get_module of the older model: names compared as written
legacy_get_module(lib, name) ==
    LET hits == {i \in 1..Len(lib.modules) : lib.modules[i].name = name}
    IN  IF hits = {} THEN 0 ELSE CHOOSE i \in hits : \A j \in hits : i <= j

\* Library.get_package of the older model: names compared as written
legacy_get_package(lib, name) ==
    LET hits == {i \in 1..Len(lib.packages) : lib.packages[i].name = name}
    IN  IF hits = {} THEN 0 ELSE CHOOSE i \in hits : \A j \in hits : i <= j

\* the branches of the older add_cst on library unit lu.  The architecture is
\* looked up by its own identifier, and reading mod.identifier of the module
\* found raises AttributeError: a Module has no such attribute
LegacyFoldUnit(lib, path, lu) ==
    IF lu.kind = "EntityDeclaration"
    THEN LET name == Str(lu.identifier) IN
         IF legacy_get_module(lib, name) # 0 THEN [lib |-> lib, err |-> "EntityExists"]
         ELSE LET r == add_entity(Module(name, <<File(path)>>), lu) IN
              IF r.err # "" THEN [lib |-> lib, err |-> r.err]
              ELSE [lib |-> [lib EXCEPT !.modules = Append(@, r.mod)], err |-> ""]
    ELSE IF lu.kind = "ArchitectureBody"
    THEN LET name == Str(lu.identifier) IN
         IF legacy_get_module(lib, name) # 0 THEN [lib |-> lib, err |-> "AttributeError"]
         ELSE [lib |-> lib, err |-> "NoSuchEntity"]
    ELSE IF lu.kind = "PackageDeclaration"
    THEN LET name == Str(lu.identifier) IN
         IF legacy_get_package(lib, name) # 0 THEN [lib |-> lib, err |-> "PackageExists"]
         ELSE LET r == add_package(DeclaredPackage(name, <<File(path)>>), lu) IN
              IF r.err # "" THEN [lib |-> lib, err |-> r.err]
              ELSE [lib |-> [lib EXCEPT !.packages = Append(@, r.pkg)], err |-> ""]
    ELSE IF lu.kind = "PackageBody"
    THEN LET name == Str(lu.simple_name)
             i == legacy_get_package(lib, name)
         IN  IF i = 0 THEN [lib |-> lib, err |-> "NoSuchPackage"]
             ELSE IF lib.packages[i].has_body THEN [lib |-> lib, err |-> "BodyExists"]
             ELSE [lib |-> [lib EXCEPT !.packages[i] = add_body(@, lu)], err |-> ""]
    ELSE [lib |-> lib, err |-> ""]

\* Library.add_cst of the older model: each iteration first reads
\* du.library_unit.unit.children[1], the second child of a node that has one
RECURSIVE legacy_add_cst_from(_, _, _, _)
legacy_add_cst_from(lib, path, units, k) ==
    IF k > Len(units) THEN [lib |-> lib, err |-> "", k |-> Len(units), before |-> lib]
    ELSE LET children == UnitChildren(units[k]) IN
         IF Len(children) < 2
         THEN [lib |-> lib, err |-> "IndexError", k |-> k, before |-> lib]
         ELSE LET r == LegacyFoldUnit(lib, path, children[2]) IN
              IF r.err # "" THEN [lib |-> r.lib, err |-> r.err, k |-> k, before |-> lib]
              ELSE IF k = Len(units)
              THEN [lib |-> r.lib, err |-> "", k |-> k, before |-> lib]
              ELSE legacy_add_cst_from(r.lib, path, units, k + 1)

\* Project.get_library of the older model: the library of that very name, or
\* a new library of that name appended to the project
legacy_get_library(libs, name) ==
    LET hits == {i \in 1..Len(libs) : libs[i].name = name}
    IN  IF hits # {}
        THEN [lib |-> CHOOSE i \in hits : \A j \in hits : i <= j,
              libraries |-> libs, err |-> ""]
        ELSE [lib |-> Len(libs) + 1, libraries |-> Append(libs, Library(name)),
              err |-> ""]

\* Project() of the older model
LegacyInit ==
    /\ threads = Idle
    /\ libraries = <<>>
    /\ last = [op |-> "init", name |-> <<>>, lib |-> 0, path |-> "", n |-> 0, k |-> 0,
               unit |-> NoUnit, before |-> Library(<<>>), err |-> ""]
    /\ driver = Idle /\ forest = Idle /\ parsed = Idle /\ formatted = Idle

\* Project.get_library(name) of the older model
LegacyGetLibrary(name) ==
    LET r == legacy_get_library(libraries, name) IN
    /\ Len(r.libraries) <= MaxLibs
    /\ libraries' = r.libraries
    /\ last' = [op |-> "get_library", name |-> name, lib |-> r.lib, path |-> "", n |-> 0,
                k |-> 0, unit |-> NoUnit, before |-> Library(<<>>), err |-> r.err]
    /\ UNCHANGED others

\* Library.add_cst(cst) of the older model on the l-th library
LegacyAddCst(l, cst) ==
    LET r == legacy_add_cst_from(libraries[l], cst.path, cst.design_units, 1) IN
    /\ libraries' = [libraries EXCEPT ![l] = r.lib]
    /\ last' = [op |-> "add_cst", name |-> <<>>, lib |-> l, path |-> cst.path,
                n |-> Len(cst.design_units), k |-> r.k,
                unit |-> IF r.k = 0 THEN NoUnit ELSE cst.design_units[r.k],
                before |-> r.before, err |-> r.err]
    /\ UNCHANGED others

LegacyNext ==
    \/ \E name \in LibraryNames : LegacyGetLibrary(name)
    \/ \E l \in 1..Len(libraries), cst \in DesignFiles \cup FooFiles : LegacyAddCst(l, cst)

LegacySpec == LegacyInit /\ [][LegacyNext]_vars

(***************************************************************************)
(* The command-line driver: main of hdltree/cli.py collects the files,     *)
(* makes a Project, adds library "src" and calls Project.add_file for each *)
(* file in turn, with nothing around the call to catch what it raises.     *)
(* driver holds the collected files, the number of add_file calls entered, *)
(* the files whose parse failure add_file printed, and whether main is     *)
(* still in its loop, past it, or ended by an exception.                   *)
(***************************************************************************)
\* what HdlParser.parse_file does on a file: return its CST, or raise
ParseOutcomes == {"ok", "UnexpectedCharacters", "VisitError", "VisitErrorOfValidation"}

\* a collected file: its path, what parsing it does, and the design units of
\* its CST when parsing returns one
SourceFile(cst, parse) == [path |-> cst.path, parse |-> parse, design_units |-> cst.design_units]

SourceFiles ==
    {SourceFile(cst, "ok") :
        cst \in {c \in DesignFiles : c.path \in {"e.vhd", "rtl.vhd", "p.vhd"}}}
    \cup {SourceFile(DesignFile("bad.vhd", <<>>), o) : o \in ParseOutcomes \ {"ok"}}

\* the sequences of 1..n elements of S
RECURSIVE SeqsUpTo(_, _)
SeqsUpTo(S, n) ==
    IF n = 0 THEN {}
    ELSE LET shorter == SeqsUpTo(S, n - 1) IN
         {<<x>> : x \in S} \cup shorter \cup {Append(q, x) : q \in shorter, x \in S}

\* Project.add_file(lib, file) as far as the project and the caller see it:
\* reported tells whether a parse failure was printed, err what the call
\* raised.  The except clauses print and fall through to add_cst(cst) with
\* cst never assigned (UnboundLocalError); the VisitError clause first calls
\* json() on the exception that caused it, which only a validation error has
add_file(libs, lib, file) ==
    IF file.parse = "UnexpectedCharacters"
    THEN [libraries |-> libs, reported |-> TRUE, err |-> "UnboundLocalError"]
    ELSE IF file.parse = "VisitErrorOfValidation"
    THEN [libraries |-> libs, reported |-> TRUE, err |-> "UnboundLocalError"]
    ELSE IF file.parse = "VisitError"
    THEN [libraries |-> libs, reported |-> TRUE, err |-> "AttributeError"]
    ELSE LET g == get_library(libs, lib) IN
         IF g.err # "" THEN [libraries |-> libs, reported |-> FALSE, err |-> g.err]
         ELSE LET r == add_cst(libs[g.lib], file.path, file.design_units) IN
              [libraries |-> [libs EXCEPT ![g.lib] = r.lib], reported |-> FALSE,
               err |-> r.err]

\* the name of the library main folds every file into
Src == <<"s", "r", "c">>

\* main up to its loop, for each list of files collect_files can return
DriverInit ==
    /\ threads = Idle
    /\ libraries = add_library(<<>>, Src).libraries
    /\ last = [op |-> "add_library", name |-> Src, lib |-> 0, path |-> "", n |-> 0,
               k |-> 0, unit |-> NoUnit, before |-> Library(<<>>), err |-> ""]
    /\ \E files \in SeqsUpTo(SourceFiles, MaxFiles) :
           driver = [files |-> files, entered |-> 0, reported |-> {}, status |-> "loop",
                     err |-> ""]
    /\ forest = Idle /\ parsed = Idle /\ formatted = Idle

\* one iteration of the loop of main: proj.add_file("src", f); an exception
\* leaving add_file ends main
DriverAddFile ==
    /\ driver.status = "loop"
    /\ LET j == driver.entered + 1
           r == add_file(libraries, Src, driver.files[j])
       IN  /\ libraries' = r.libraries
           /\ driver' = [driver EXCEPT
                  !.entered = j,
                  !.reported = IF r.reported THEN @ \cup {j} ELSE @,
                  !.err = r.err,
                  !.status = IF r.err # "" THEN "raised"
                             ELSE IF j = Len(driver.files) THEN "done" ELSE "loop"]
           /\ last' = [op |-> "add_file", name |-> Src, lib |-> 1,
                       path |-> driver.files[j].path,
                       n |-> Len(driver.files[j].design_units), k |-> 0, unit |-> NoUnit,
                       before |-> libraries[1], err |-> r.err]
    /\ UNCHANGED <<forest, parsed, formatted, threads>>

DriverNext == DriverAddFile

DriverSpec == DriverInit /\ [][DriverNext]_vars

(***************************************************************************)
(* Entity and package declarations with generic and port clauses of        *)
(* several declarations, each folded into the empty library.               *)
(***************************************************************************)
\* files of one entity declaration or one package declaration, with generic
\* clauses and port clauses of up to MaxDecls declarations
InterfaceFiles ==
    LET \* n, m : integer
        GenNM == InterfaceConstantDeclaration(<< <<"n">>, <<"m">> >>, Integer, None)
        \* b, c : std_logic (no mode written)
        PortBC == InterfaceSignalDeclaration(<< <<"b">>, <<"c">> >>, None, StdLogic, None)
        \* d : out std_logic := '0'
        PortD == InterfaceSignalDeclaration(<< <<"d">> >>, <<"o", "u", "t">>, StdLogic,
                                            <<"'", "0", "'">>)
        GenericClauses == {<<>>} \cup SeqsUpTo({GenN, GenNM, GenT}, MaxDecls)
        PortClauses == {<<>>} \cup SeqsUpTo({PortA, PortBC, PortD}, MaxDecls)
    IN  {DesignFile("e.vhd", <<EntityDeclaration(<<"e">>, g, q)>>) :
            g \in GenericClauses, q \in PortClauses}
        \cup {DesignFile("p.vhd", <<PackageDeclaration(<<"p">>, g, d)>>) :
                g \in GenericClauses, d \in {<<>>, <<SubF>>}}

\* one file of a declaration folded into the library w while it is empty
InterfaceNext ==
    \E cst \in InterfaceFiles :
        /\ libraries[1] = Library(<<"w">>)
        /\ AddCst(1, cst)

InterfaceSpec == LibraryInit /\ [][InterfaceNext]_vars

(***************************************************************************)
(* collect_files (hdltree/Parser.py).  A Path is the sequence of its       *)
(* components; the disk holds files, listed in the order rglob yields      *)
(* them, and the directories above them.                                   *)
(***************************************************************************)
Disk ==
    <<[path |-> <<"src", "a.vhd">>, ext |-> "vhd"],
      [path |-> <<"src", "sub", "b.vhd">>, ext |-> "vhd"],
      [path |-> <<"src", "sub", "c.vhdl">>, ext |-> "vhdl"],
      [path |-> <<"src", "notes.txt">>, ext |-> "txt"],
      [path |-> <<"tb", "t.vht">>, ext |-> "vht"]>>

\* collect_files(include, exclude): the list of files returned
collect_files(include, exclude) ==
    LET vhdl_fileext == <<"vhd", "vhdl", "vht">>
        is_relative_to(path, other) ==
            Len(other) <= Len(path) /\ SubSeq(path, 1, Len(other)) = other
        is_file(path) == \E k \in 1..Len(Disk) : Disk[k].path = path
        is_dir(path) ==
            \E k \in 1..Len(Disk) :
                Len(path) < Len(Disk[k].path) /\ is_relative_to(Disk[k].path, path)
        \* the nested is_excluded(test) reads inpath, the variable of the loop
        \* over include, and not its argument
        is_excluded(test, inpath) == \E j \in 1..Len(exclude) : is_relative_to(inpath, exclude[j])
        \* inpath.rglob("*." + ext): the files of that suffix below inpath
        rglob(inpath, ext) ==
            SelectSeq(Disk, LAMBDA f : f.ext = ext /\ Len(inpath) < Len(f.path)
                                        /\ is_relative_to(f.path, inpath))
        found(inpath, ext) ==
            LET hits == SelectSeq(rglob(inpath, ext),
                                  LAMBDA f : is_file(f.path) /\ ~is_excluded(f.path, inpath))
            IN  [k \in 1..Len(hits) |-> hits[k].path]
        walk(inpath) ==
            found(inpath, vhdl_fileext[1]) \o found(inpath, vhdl_fileext[2])
            \o found(inpath, vhdl_fileext[3])
        files[i \in 0..Len(include)] ==
            IF i = 0 THEN <<>>
            ELSE LET inpath == include[i] IN
                 IF is_file(inpath) /\ ~is_excluded(inpath, inpath)
                 THEN Append(files[i - 1], inpath)
                 ELSE IF is_dir(inpath) /\ ~is_excluded(inpath, inpath)
                 THEN files[i - 1] \o walk(inpath)
                 ELSE files[i - 1]
    IN  files[Len(include)]

\* main of cli.py before collect_files, for the inputs and excludes of the
\* command line
CollectInit ==
    /\ threads = Idle
    /\ libraries = <<>>
    /\ last = [op |-> "init", name |-> <<>>, lib |-> 0, path |-> "", n |-> 0, k |-> 0,
               unit |-> NoUnit, before |-> Library(<<>>), err |-> ""]
    /\ forest = Idle /\ parsed = Idle /\ formatted = Idle
    /\ LET paths == {<<"src">>, <<"src", "sub">>, <<"tb">>, <<"src", "a.vhd">>,
                     <<"src", "sub", "b.vhd">>, <<"lib">>}
       IN  \E include \in SeqsUpTo(paths, MaxPaths),
              exclude \in {<<>>} \cup SeqsUpTo(paths, MaxPaths) :
               driver = [status |-> "collect", include |-> include, exclude |-> exclude,
                         files |-> <<>>]

\* files = Parser.collect_files(args.input, args.exclude)
CollectFiles ==
    /\ driver.status = "collect"
    /\ driver' = [driver EXCEPT !.status = "collected",
                                !.files = collect_files(driver.include, driver.exclude)]
    /\ UNCHANGED <<libraries, last, forest, parsed, formatted, threads>>

CollectNext == CollectFiles

CollectSpec == CollectInit /\ [][CollectNext]_vars

(***************************************************************************)
(* The parse forest and the ambiguity shaper                               *)
(* (hdltree/VhdlParseTreeTransformers.py).  A child of a tree is a Tree, a *)
(* Token or the None of an absent optional ([kind |-> "None"]); every one   *)
(* is a record with a kind.  to_delete is the attribute the shaper sets on *)
(* a tree: FALSE stands for a tree without the attribute.                  *)
(***************************************************************************)
Token(value) == [kind |-> "Token", value |-> value]

Tree(data, children) ==
    [kind |-> "Tree", data |-> data, children |-> children, to_delete |-> FALSE]

\* what a transformer callback returns besides a tree: the Discard marker, or
\* the exception the transformer wraps into VisitError
Discard == [kind |-> "Discard"]
VisitError(err) == [kind |-> "VisitError", err |-> err]

\* a tree as Tree.__eq__ sees it: the data and the children, recursively, and
\* no attribute set on the objects
RECURSIVE Structure(_)
Structure(t) ==
    IF t.kind # "Tree" THEN t
    ELSE Tree(t.data, [i \in 1..Len(t.children) |-> Structure(t.children[i])])

\* a == b of two children
TreeEq(a, b) == Structure(a) = Structure(b)

\* is_deleteable: the tree, or a tree below it, carries to_delete
RECURSIVE is_deleteable(_)
is_deleteable(tree) ==
    \/ tree.to_delete
    \/ \E i \in 1..Len(tree.children) :
           /\ tree.children[i].kind = "Tree"
           /\ is_deleteable(tree.children[i])

\* the loop of get_unique from position i on, with the list built so far
RECURSIVE get_unique_from(_, _, _)
get_unique_from(children, i, unique) ==
    IF i > Len(children) THEN unique
    ELSE LET c == children[i]
             isnew == \A j \in 1..Len(unique) : ~TreeEq(c, unique[j])
         IN  get_unique_from(children, i + 1,
                 IF isnew /\ ~is_deleteable(c) THEN Append(unique, c) ELSE unique)

\* get_unique keeping a later copy of equal children as well
get_unique_KeepEqual(children) ==
    SelectSeq(children, LAMBDA c : ~is_deleteable(c))

\* get_unique: the children that are not deleteable, each kept once, in order
get_unique(children) == get_unique_from(children, 1, <<>>)

\* _ambig branching on numorig, the number of children it was given
MakeAmbigUnique_ambig_ByNumOrig(tree) ==
    LET unique == get_unique(tree.children)
        numorig == Len(tree.children)
    IN  IF numorig = 0 THEN Discard
        ELSE IF numorig = 1 /\ unique # <<>> THEN Tree(unique[1].data, unique[1].children)
        ELSE Tree("_ambig", unique)

\* MakeAmbigUnique._ambig on the tree with its children already transformed
MakeAmbigUnique_ambig(tree) ==
    LET unique == get_unique(tree.children)
        numunique == Len(unique)
    IN  IF numunique = 0 THEN Discard
        ELSE IF numunique = 1 THEN Tree(unique[1].data, unique[1].children)
        ELSE Tree("_ambig", unique)

\* the names MakeAmbigUnique.function_call knows as functions: functions = []
Functions == {}

\* the walk of function_call down the first children to the name token;
\* children[0] of an empty list raises IndexError, .value of None
\* AttributeError
RECURSIVE FirstLeaf(_)
FirstLeaf(children) ==
    IF children = <<>> THEN [err |-> "IndexError", value |-> ""]
    ELSE IF children[1].kind = "Tree" THEN FirstLeaf(children[1].children)
    ELSE IF children[1].kind = "Token" THEN [err |-> "", value |-> children[1].value]
    ELSE [err |-> "AttributeError", value |-> ""]

\* MakeAmbigUnique.function_call
MakeAmbigUnique_function_call(tree) ==
    LET name == FirstLeaf(tree.children) IN
    IF name.err # "" THEN VisitError(name.err)
    ELSE IF name.value \notin Functions THEN [tree EXCEPT !.to_delete = TRUE]
    ELSE tree

\* the units MakeAmbigUnique.physical_literal accepts
Units == {"fs", "ps", "ns", "us", "ms", "sec", "min", "hr"}

\* MakeAmbigUnique.physical_literal: the unit is children[1], or the first
\* child of that tree; a unit that is no token equals no unit text
MakeAmbigUnique_physical_literal(tree) ==
    IF Len(tree.children) < 2 THEN VisitError("IndexError")
    ELSE LET c == tree.children[2] IN
         IF c.kind = "Tree" /\ c.children = <<>> THEN VisitError("IndexError")
         ELSE LET unit == IF c.kind = "Tree" THEN c.children[1] ELSE c IN
              IF ~(unit.kind = "Token" /\ unit.value \in Units)
              THEN Discard
              ELSE tree

\* Transformer._call_userfunc of MakeAmbigUnique: the callback named after
\* tree.data, or __default__, which returns the tree
MakeAmbigUnique_call(tree) ==
    IF tree.data = "_ambig" THEN MakeAmbigUnique_ambig(tree)
    ELSE IF tree.data = "function_call" THEN MakeAmbigUnique_function_call(tree)
    ELSE IF tree.data = "physical_literal" THEN MakeAmbigUnique_physical_literal(tree)
    ELSE tree

\* MakeAmbigUnique().transform(tree): the children are transformed first, from
\* left to right, a child whose callback returned Discard is left out of the
\* new children, and the callback gets a new Tree of the new children
RECURSIVE MakeAmbigUnique_transform(_)
RECURSIVE MakeAmbigUnique_children(_, _, _)
MakeAmbigUnique_children(children, i, done) ==
    IF i > Len(children) THEN [kind |-> "children", children |-> done]
    ELSE IF children[i].kind # "Tree"
    THEN MakeAmbigUnique_children(children, i + 1, Append(done, children[i]))
    ELSE LET res == MakeAmbigUnique_transform(children[i]) IN
         IF res.kind = "VisitError" THEN res
         ELSE MakeAmbigUnique_children(children, i + 1,
                  IF res.kind = "Discard" THEN done ELSE Append(done, res))

MakeAmbigUnique_transform(tree) ==
    LET c == MakeAmbigUnique_children(tree.children, 1, <<>>) IN
    IF c.kind = "VisitError" THEN c
    ELSE MakeAmbigUnique_call(Tree(tree.data, c.children))

\* CollapseAmbig().transform(tree): an _ambig becomes a copy of its first child
\* CollapseAmbig taking the first alternative as the Earley parser gave it,
\* without transforming it first
RECURSIVE CollapseAmbig_transform_Shallow(_)
CollapseAmbig_transform_Shallow(tree) ==
    IF tree.data = "_ambig"
    THEN (IF tree.children = <<>> THEN VisitError("IndexError")
          ELSE Tree(tree.children[1].data, tree.children[1].children))
    ELSE Tree(tree.data, [i \in 1..Len(tree.children) |->
                             IF tree.children[i].kind = "Tree"
                             THEN CollapseAmbig_transform_Shallow(tree.children[i])
                             ELSE tree.children[i]])

RECURSIVE CollapseAmbig_transform(_)
CollapseAmbig_transform(tree) ==
    LET children == [i \in 1..Len(tree.children) |->
                        IF tree.children[i].kind = "Tree"
                        THEN CollapseAmbig_transform(tree.children[i])
                        ELSE tree.children[i]]
        failed == {i \in 1..Len(children) : children[i].kind = "VisitError"}
    IN  IF failed # {} THEN children[CHOOSE i \in failed : \A j \in failed : i <= j]
        ELSE IF tree.data # "_ambig" THEN Tree(tree.data, children)
        ELSE IF children = <<>> THEN VisitError("IndexError")
        ELSE Tree(children[1].data, children[1].children)

(***************************************************************************)
(* The typed CST (hdltree/VhdlCstTransformer.py).  A node has the fields   *)
(* of its dataclass, in order; a field holds a node, a Token, None or a    *)
(* list.  data keeps the name of the grammar rule the class is named after.*)
(***************************************************************************)
Node(data, fields) == [kind |-> "Tree", data |-> data, fields |-> fields]

List(items) == [kind |-> "list", items |-> items]

\* the rules whose class takes its children as one list (ast_utils.AsList)
AsListRules == {"logical_expression", "design_file"}

\* the number of fields of the class of a rule
FieldCount(data) ==
    IF data \in {"physical_literal", "function_call", "indexed_name", "slice_name"}
    THEN 2
    ELSE 1

\* vhdl_transformer.transform(tree): every rule calls its class with the built
\* children as arguments, as_list gives a plain list; a class called with
\* another number of arguments than it has fields raises TypeError
RECURSIVE build(_)
build(tree) ==
    LET children == [i \in 1..Len(tree.children) |->
                        IF tree.children[i].kind = "Tree" THEN build(tree.children[i])
                        ELSE tree.children[i]]
        failed == {i \in 1..Len(children) : children[i].kind = "VisitError"}
    IN  IF failed # {} THEN children[CHOOSE i \in failed : \A j \in failed : i <= j]
        ELSE IF tree.data = "as_list" THEN List(children)
        ELSE IF tree.data \in AsListRules THEN Node(tree.data, <<List(children)>>)
        ELSE IF Len(children) # FieldCount(tree.data) THEN VisitError("TypeError")
        ELSE Node(tree.data, children)

\* a child of a node is named by the field it is in and, in a list field, its
\* position in the list (0 otherwise)
ChildAt(node, step) ==
    IF step[2] = 0 THEN node.fields[step[1]] ELSE node.fields[step[1]].items[step[2]]

\* the children property leaving the elements of list fields out
RECURSIVE children_NoLists(_, _)
children_NoLists(node, f) ==
    IF f > Len(node.fields) THEN <<>>
    ELSE (IF node.fields[f].kind = "list" THEN <<>> ELSE << <<f, 0>> >>)
         \o children_NoLists(node, f + 1)

\* _VhdlCstNode.children from field f on: the values of the fields in order,
\* a list field giving its elements (a class whose one field is a list gives
\* that list, which is the same sequence)
RECURSIVE children(_, _)
children(node, f) ==
    IF f > Len(node.fields) THEN <<>>
    ELSE (IF node.fields[f].kind = "list"
          THEN [i \in 1..Len(node.fields[f].items) |-> <<f, i>>]
          ELSE << <<f, 0>> >>)
         \o children(node, f + 1)

\* AddCstParent().visit(cst) from the node at path on: every subtree reached
\* through children that are trees gives each child that is a tree itself as
\* parent, and each element of a child that is a list; the result is the set
\* of pairs <<child, parent>>, nodes named by their paths from the root
RECURSIVE AddCstParent_visit(_, _)
AddCstParent_visit(node, path) ==
    LET steps == children(node, 1) IN
    UNION {LET child == ChildAt(node, steps[i])
               here == Append(path, steps[i])
           IN  IF child.kind = "Tree"
               THEN {<<here, path>>} \cup AddCstParent_visit(child, here)
               ELSE IF child.kind = "list"
               THEN {<<Append(here, <<1, j>>), path>> : j \in 1..Len(child.items)}
               ELSE {}
           : i \in 1..Len(steps)}

\* HdlParser.parse_vhdl on the forest the Earley parser returned: shape,
\* collapse, build the CST and set the parents; an exception of a transformer
\* leaves parse_vhdl as VisitError
parse_vhdl(parse_tree) ==
    LET shaped == MakeAmbigUnique_transform(parse_tree) IN
    IF shaped.kind = "VisitError" THEN shaped
    ELSE LET collapsed == CollapseAmbig_transform(shaped) IN
         IF collapsed.kind = "VisitError" THEN collapsed
         ELSE LET cst == build(collapsed) IN
              IF cst.kind = "VisitError" THEN cst
              ELSE [kind |-> "cst", cst |-> cst, parent |-> AddCstParent_visit(cst, <<>>)]

(***************************************************************************)
(* Parse forests: the readings of the text f(3), physical literals with a  *)
(* unit, and _ambig nodes over them, as one operand of a logical           *)
(* expression.                                                             *)
(***************************************************************************)
Identifier(value) == Tree("identifier", <<Token(value)>>)

\* the literal 3 as an expression, and as the argument list of a call
Literal3 ==
    Tree("literal", <<Tree("numeric_literal", <<Tree("abstract_literal", <<Token("3")>>)>>)>>)

FunctionCall(name, parameter) ==
    Tree("function_call", <<Tree("name", <<Identifier(name)>>), Tree("as_list", <<parameter>>)>>)

IndexedName(prefix, expression) ==
    Tree("indexed_name", <<Tree("name", <<Identifier(prefix)>>), Tree("as_list", <<expression>>)>>)

SliceName(prefix, discrete_range) ==
    Tree("slice_name", <<Tree("name", <<Identifier(prefix)>>), discrete_range>>)

\* 10 <unit>
PhysicalLiteral(unit) ==
    Tree("physical_literal", <<Tree("abstract_literal", <<Token("10")>>), Identifier(unit)>>)

Literal(numeric_literal) == Tree("literal", <<Tree("numeric_literal", <<numeric_literal>>)>>)

Ambig(alternatives) == Tree("_ambig", alternatives)

\* the readings an _ambig of the model chooses between
Alternatives ==
    {FunctionCall("f", Literal3), IndexedName("f", Literal3), SliceName("f", Literal3),
     PhysicalLiteral("ns"), PhysicalLiteral("xs"),
     Literal(PhysicalLiteral("ns")), Literal(PhysicalLiteral("xs")),
     IndexedName("x", FunctionCall("f", Literal3)),
     IndexedName("x", Ambig(<<FunctionCall("f", Literal3), IndexedName("f", Literal3)>>)),
     IndexedName("x", Ambig(<<FunctionCall("f", Literal3)>>)),
     IndexedName("x", Ambig(<<SliceName("f", Literal3), IndexedName("f", Literal3)>>))}

\* operand and ... : the forest of an expression with the operand first
Forest(operand) ==
    Tree("logical_expression", <<operand, Token("and"), IndexedName("y", Literal3)>>)

Forests ==
    {Forest(a) : a \in Alternatives}
    \cup {Forest(Ambig(alts)) : alts \in SeqsUpTo(Alternatives, MaxAlts)}

\* no tree yet
NoTree == [kind |-> "none"]

\* a forest as the Earley parser returned it
ParserInit ==
    /\ threads = Idle
    /\ libraries = <<>>
    /\ last = [op |-> "init", name |-> <<>>, lib |-> 0, path |-> "", n |-> 0, k |-> 0,
               unit |-> NoUnit, before |-> Library(<<>>), err |-> ""]
    /\ driver = Idle
    /\ \E t \in Forests : forest = [tree |-> t, passes |-> 0, prev |-> NoTree, out |-> t]
    /\ parsed = NoTree
    /\ formatted = Idle

\* MakeAmbigUnique().transform applied to the forest, then to its own output
Shape ==
    /\ forest.passes < MaxPasses
    /\ forest.out.kind = "Tree"
    /\ forest' = [forest EXCEPT !.passes = @ + 1, !.prev = forest.out,
                                !.out = MakeAmbigUnique_transform(forest.out)]
    /\ UNCHANGED <<libraries, last, driver, parsed, formatted, threads>>

\* HdlParser.parse_vhdl on the forest
ParseVhdl ==
    /\ parsed = NoTree
    /\ parsed' = parse_vhdl(forest.tree)
    /\ UNCHANGED <<libraries, last, driver, forest, formatted, threads>>

ParserNext == Shape \/ ParseVhdl

ParserSpec == ParserInit /\ [][ParserNext]_vars

(***************************************************************************)
(* format(): the text of a CST node.  A Python str is a sequence of        *)
(* one-character strings; a call gives [kind |-> "str", s |-> text] when   *)
(* it returns and [kind |-> "raise", err |-> exception] when it raises.    *)
(* The text of a Token is a sequence of characters here.                   *)
(***************************************************************************)
Returned(s) == [kind |-> "str", s |-> s]

Raise(err) == [kind |-> "raise", err |-> err]

\* a + b + ... of operands evaluated left to right: the first one that raises
\* ends the expression
RECURSIVE Concat(_)
Concat(parts) ==
    IF parts = <<>> THEN Returned(<<>>)
    ELSE IF Head(parts).kind = "raise" THEN Head(parts)
    ELSE LET rest == Concat(Tail(parts)) IN
         IF rest.kind = "raise" THEN rest ELSE Returned(Head(parts).s \o rest.s)

\* the parameters of nonestr other than val
NonestrKeywords == {"pre", "post", "sep"}

RECURSIVE format(_)
RECURSIVE str(_)
RECURSIVE Cst_nonestr(_, _)

\* str(val): __str__ of a node is format(), of a Token its text, of None
\* the word None
str(val) ==
    IF val.kind = "Tree" THEN format(val)
    ELSE IF val.kind = "Token" THEN Returned(val.value)
    ELSE Returned(NoneText)

\* nonestr(val, **kw) of VhdlCstTransformer.py, kw the keyword arguments of the
\* call: a keyword that is no parameter raises TypeError before
\* the body runs
Cst_nonestr(val, kw) ==
    LET pre == IF "pre" \in DOMAIN kw THEN kw.pre ELSE <<>>
        post == IF "post" \in DOMAIN kw THEN kw.post ELSE <<>>
        sep == IF "sep" \in DOMAIN kw THEN kw.sep ELSE <<>>
        join[i \in 0..(IF val.kind = "list" THEN Len(val.items) ELSE 0)] ==
            IF i = 0 THEN Returned(<<>>)
            ELSE IF i = 1 THEN str(val.items[1])
            ELSE Concat(<<join[i - 1], Returned(sep), str(val.items[i])>>)
        valstr == IF val.kind = "list" THEN join[Len(val.items)] ELSE str(val)
    IN  IF ~(DOMAIN kw \subseteq NonestrKeywords) THEN Raise("TypeError")
        ELSE IF val.kind = "list" /\ sep = <<>> THEN Raise("AssertionError")
        ELSE IF valstr.kind = "raise" THEN valstr
        ELSE IF val.kind # "None" /\ valstr.s # <<>> THEN Returned(pre \o valstr.s \o post)
        ELSE Returned(<<>>)

\* RecordElementResolution.format: the class has the fields
\* record_element_simple_name and resolution_indication, and no name
RecordElementResolution_format(node) ==
    LET attributes == {"record_element_simple_name", "resolution_indication"} IN
    IF "name" \in attributes THEN str(node.fields[1]) ELSE Raise("AttributeError")

\* GenerateStatementBody.format
GenerateStatementBody_format(node) ==
    Concat(<<Cst_nonestr(node.fields[1], [sep |-> <<"\n">>,
                                      post |-> <<" ", "b", "e", "g", "i", "n">>]),
             Cst_nonestr(node.fields[2], [sep |-> <<"\n">>, end |-> <<"\n">>]),
             Cst_nonestr(node.fields[3], [pre |-> <<"e", "n", "d", " ">>,
                                          post |-> <<";">>])>>)

\* format() of the node by its class
format(node) ==
    CASE node.data \in {"identifier", "name", "concurrent_statement", "resolution_indication",
                        "type_mark", "incomplete_type_declaration"} ->
             str(node.fields[1])
      [] node.data = "subtype_indication" ->
             Concat(<<Cst_nonestr(node.fields[1], [post |-> <<" ">>]), str(node.fields[2]),
                      Cst_nonestr(node.fields[3], <<>>)>>)
      [] node.data = "interface_signal_declaration" ->
             Concat(<<Cst_nonestr(node.fields[1], [post |-> <<" ">>]),
                      Cst_nonestr(node.fields[2], [sep |-> <<",", " ">>]),
                      Returned(<<" ", ":", " ">>),
                      Cst_nonestr(node.fields[3], [post |-> <<" ">>]),
                      str(node.fields[4]),
                      Cst_nonestr(node.fields[6], [pre |-> <<" ", ":", "=", " ">>])>>)
      [] node.data = "procedure_call" ->
             Concat(<<str(node.fields[1]),
                      Cst_nonestr(node.fields[2],
                              [sep |-> <<",", " ">>, pre |-> <<"(">>, post |-> <<")">>])>>)
      [] node.data = "concurrent_procedure_call_statement" ->
             Concat(<<Cst_nonestr(node.fields[1], [post |-> <<":", " ">>]),
                      Cst_nonestr(node.fields[2], [post |-> <<" ">>]),
                      str(node.fields[3]), Returned(<<";">>)>>)
      [] node.data = "record_element_resolution" -> RecordElementResolution_format(node)
      [] node.data = "generate_statement_body" -> GenerateStatementBody_format(node)

(***************************************************************************)
(* CST nodes as the builder returns them: names, concurrent procedure call *)
(* statements with and without label and postponed, generate statement     *)
(* bodies of up to MaxItems statements, record element resolutions.        *)
(***************************************************************************)
\* the None of an absent optional field
NoneField == [kind |-> "None"]

NameNodes == {Node("name", <<Node("identifier", <<Token(<<c>>)>>)>>) : c \in {"a", "b"}}

Labels == {NoneField} \cup {Node("identifier", <<Token(<<c>>)>>) : c \in {"g", "h"}}

ProcedureCallStatements ==
    {Node("concurrent_procedure_call_statement",
          <<label, postponed, Node("procedure_call", <<name, NoneField>>)>>) :
        label \in Labels,
        postponed \in {NoneField, Token(<<"p", "o", "s", "t", "p", "o", "n", "e", "d">>)},
        name \in NameNodes}

ConcurrentStatements ==
    {Node("concurrent_statement", <<s>>) :
        s \in {p \in ProcedureCallStatements :
                    p.fields[1] = NoneField /\ p.fields[2] = NoneField}}

GenerateStatementBodies ==
    {Node("generate_statement_body", <<declarative, List(statements), label>>) :
        declarative \in {NoneField, List(<<>>)},
        statements \in {<<>>} \cup SeqsUpTo(ConcurrentStatements, MaxItems),
        label \in Labels}

RecordElementResolutions ==
    {Node("record_element_resolution",
          <<Node("identifier", <<Token(<<c>>)>>), Node("resolution_indication", <<name>>)>>) :
        c \in {"r", "s"}, name \in NameNodes}

\* type Q;
IncompleteTypeDeclarations ==
    {Node("incomplete_type_declaration", <<Node("identifier", <<Token(<<c>>)>>)>>) :
        c \in {"Q", "t"}}

\* [signal] p {, p} : [in] a [bus]
InterfaceSignalDeclarations ==
    {Node("interface_signal_declaration",
          <<signal, List(names), mode,
            Node("subtype_indication",
                 <<NoneField, Node("type_mark", <<type>>), NoneField>>),
            bus, NoneField>>) :
        signal \in {NoneField, Token(<<"s", "i", "g", "n", "a", "l">>)},
        names \in SeqsUpTo({Node("identifier", <<Token(<<c>>)>>) : c \in {"P", "w"}}, MaxItems),
        mode \in {NoneField, Token(<<"i", "n">>)},
        type \in NameNodes,
        bus \in {NoneField, Token(<<"b", "u", "s">>)}}

CstNodes ==
    NameNodes \cup ProcedureCallStatements \cup ConcurrentStatements
    \cup GenerateStatementBodies \cup RecordElementResolutions
    \cup IncompleteTypeDeclarations \cup InterfaceSignalDeclarations

\* the kinds of node of which the source text is modelled
SourceKinds ==
    {"concurrent_procedure_call_statement", "incomplete_type_declaration",
     "interface_signal_declaration"}

\* a source text of which the node is the parse: the lexemes of the
\* declaration or statement in order, with white space between them and a
\* comment at the end of the line
Source(node) ==
    LET text(v) == IF v.kind = "None" THEN <<>> ELSE v.value \o <<" ">>
        id(n) == n.fields[1].value
        ids[i \in 1..MaxItems + 1] ==
            IF i = 1 THEN id(node.fields[2].items[1])
            ELSE ids[i - 1] \o <<",", " ">> \o id(node.fields[2].items[i])
        comment == <<" ", "-", "-", " ", "F", ";", "\n">>
    IN  CASE node.data = "incomplete_type_declaration" ->
                 <<"t", "y", "p", "e", " ">> \o id(node.fields[1]) \o <<" ", ";">> \o comment
          [] node.data = "concurrent_procedure_call_statement" ->
                 (IF node.fields[1].kind = "None" THEN <<>>
                  ELSE id(node.fields[1]) \o <<" ", ":", "\n">>)
                 \o text(node.fields[2])
                 \o id(node.fields[3].fields[1].fields[1]) \o <<";">> \o comment
          [] node.data = "interface_signal_declaration" ->
                 text(node.fields[1]) \o ids[Len(node.fields[2].items)] \o <<" ", ":", " ">>
                 \o text(node.fields[3])
                 \o id(node.fields[4].fields[2].fields[1].fields[1]) \o <<" ">>
                 \o text(node.fields[5]) \o comment

\* the text as example.py compares it: lower case, without the -- comments up
\* to the end of their line and without white space
RECURSIVE normalize(_, _)
normalize(txt, i) ==
    IF i > Len(txt) THEN <<>>
    ELSE IF i < Len(txt) /\ txt[i] = "-" /\ txt[i + 1] = "-"
    THEN LET ends == {j \in i..Len(txt) : txt[j] = "\n"} IN
         IF ends = {} THEN <<>>
         ELSE normalize(txt, CHOOSE j \in ends : \A k \in ends : j <= k)
    ELSE IF txt[i] \in {" ", "\n"} THEN normalize(txt, i + 1)
    ELSE <<LowerChar(txt[i])>> \o normalize(txt, i + 1)

FormatInit ==
    /\ threads = Idle
    /\ libraries = <<>>
    /\ last = [op |-> "init", name |-> <<>>, lib |-> 0, path |-> "", n |-> 0, k |-> 0,
               unit |-> NoUnit, before |-> Library(<<>>), err |-> ""]
    /\ driver = Idle /\ forest = Idle /\ parsed = Idle
    /\ \E node \in CstNodes : formatted = [node |-> node, out |-> NoTree]

\* str(node) on a node of the CST
Format ==
    /\ formatted.out = NoTree
    /\ formatted' = [formatted EXCEPT !.out = str(formatted.node)]
    /\ UNCHANGED <<libraries, last, driver, forest, parsed, threads>>

FormatNext == Format

FormatSpec == FormatInit /\ [][FormatNext]_vars

(***************************************************************************)
(* Properties.                                                             *)
(***************************************************************************)
\* the libraries of the project, by position
LibIndices == 1..Len(libraries)

\* the latest call was add_cst and the last unit it entered has this kind
LastUnitIs(kind) == last.op = "add_cst" /\ last.unit.kind = kind

\* the library the latest add_cst call was made on, as the call left it
LastLib == libraries[last.lib]

\* C1: no two packages of a library (declared or instanced) have names equal
\* under case-insensitive comparison; an instantiation whose identifier is the
\* name of a package of the library adds no second package of that name.
C1_PackageNamesUnique ==
    \A l \in LibIndices : \A i, j \in 1..Len(libraries[l].packages) :
        i # j => Lower(libraries[l].packages[i].name) # Lower(libraries[l].packages[j].name)

\* C2: no two modules of a library have names equal under case-insensitive
\* comparison, and an EntityDeclaration whose name matches a module of the
\* library in any letter case is rejected with "entity already exists".
C2_EntityNamesUnique ==
    /\ \A l \in LibIndices : \A i, j \in 1..Len(libraries[l].modules) :
           i # j => Lower(libraries[l].modules[i].name) # Lower(libraries[l].modules[j].name)
    /\ LastUnitIs("EntityDeclaration") =>
           ((\E i \in 1..Len(last.before.modules) :
                 Lower(last.before.modules[i].name) = Lower(last.unit.identifier))
               => last.err = "EntityExists")

\* an entity written in another letter case than the module it names was rejected
C2_Witness ==
    /\ LastUnitIs("EntityDeclaration")
    /\ last.err = "EntityExists"
    /\ \E i \in 1..Len(LastLib.modules) :
           /\ LastLib.modules[i].name # last.unit.identifier
           /\ Lower(LastLib.modules[i].name) = Lower(last.unit.identifier)

\* C3: once an ArchitectureBody of entity E has been folded in, module E has
\* arch_name set to the architecture's name and its files contain the file
\* the architecture came from (besides the file of the entity).
C3_ArchitectureFileRecorded ==
    (LastUnitIs("ArchitectureBody") /\ last.err = "") =>
        \E i \in 1..Len(LastLib.modules) :
            /\ Lower(LastLib.modules[i].name) = Lower(NameFormat(last.unit.entity_name))
            /\ LastLib.modules[i].arch_name = last.unit.identifier
            /\ File(last.path) \in LastLib.modules[i].files

\* C4: when add_cst raises in its k-th design unit, the library is exactly as
\* the first k-1 units left it: the failing unit leaves nothing behind.
C4_FailingUnitLeavesNothing ==
    (last.op = "add_cst" /\ last.err # "") => LastLib = last.before

\* the third unit of a file failed inside add_entity after the first two were folded
C4_Witness ==
    /\ last.op = "add_cst"
    /\ last.err = "BadGenericType"
    /\ last.k = 3
    /\ \E i \in 1..Len(LastLib.modules) :
           /\ LastLib.modules[i].name = <<"f">>
           /\ LastLib.modules[i].arch_name = <<"r", "t", "l">>
           /\ LastLib.modules[i].files = {File(last.path)}

\* C5: an ArchitectureBody for an entity that already has an architecture
\* fails with "already has an architecture" and leaves that module, its
\* arch_name and its files, as it was.
C5_SecondArchitectureRejected ==
    LastUnitIs("ArchitectureBody") =>
        \A i \in 1..Len(last.before.modules) :
            (/\ Lower(last.before.modules[i].name) = Lower(NameFormat(last.unit.entity_name))
             /\ last.before.modules[i].arch_name # <<>>)
            => /\ last.err = "ArchitectureExists"
               /\ LastLib.modules[i].arch_name = last.before.modules[i].arch_name
               /\ LastLib.modules[i].files = last.before.modules[i].files

\* a second architecture, of another name, was rejected and the first one kept
C5_Witness ==
    /\ LastUnitIs("ArchitectureBody")
    /\ last.err = "ArchitectureExists"
    /\ \E i \in 1..Len(LastLib.modules) :
           /\ Lower(LastLib.modules[i].name) = Lower(NameFormat(last.unit.entity_name))
           /\ LastLib.modules[i].arch_name # <<>>
           /\ LastLib.modules[i].arch_name # last.unit.identifier

\* the simple name a package instantiation gives for its base package
BasePackageName(lu) ==
    lu.uninstantiated_package_name[Len(lu.uninstantiated_package_name)]

\* the library has a package of that name, in any letter case
HasPackage(lib, name) ==
    \E i \in 1..Len(lib.packages) : Lower(lib.packages[i].name) = Lower(name)

\* the library has a module of that name, in any letter case
HasModule(lib, name) ==
    \E i \in 1..Len(lib.modules) : Lower(lib.modules[i].name) = Lower(name)

\* C6: a unit whose primary unit is not in the library is rejected and changes
\* nothing (architecture: no such entity; package body and package
\* instantiation: no such package), and a package instantiation folded after
\* its base package succeeds.
C6_MissingPrimaryRejected ==
    /\ (LastUnitIs("ArchitectureBody")
          /\ ~HasModule(last.before, NameFormat(last.unit.entity_name)))
       => (last.err = "NoSuchEntity" /\ LastLib = last.before)
    /\ (LastUnitIs("PackageBody") /\ ~HasPackage(last.before, last.unit.simple_name))
       => (last.err = "NoSuchPackage" /\ LastLib = last.before)
    /\ (LastUnitIs("PackageInstantiationDeclaration")
          /\ ~HasPackage(last.before, BasePackageName(last.unit)))
       => (last.err = "NoSuchPackage" /\ LastLib = last.before)
    /\ (LastUnitIs("PackageInstantiationDeclaration")
          /\ HasPackage(last.before, BasePackageName(last.unit)))
       => last.err = ""

\* C7: the first PackageBody of a declared package sets has_body and adds the
\* body's file to the package's files; a later PackageBody for that package
\* (name in any letter case) fails with "already has a body" and leaves
\* has_body and files as they were.
C7_AtMostOneBody ==
    LastUnitIs("PackageBody") =>
        \A i \in 1..Len(last.before.packages) :
            (/\ i = get_package(last.before, last.unit.simple_name)
             /\ last.before.packages[i].kind = "DeclaredPackage")
            => IF last.before.packages[i].has_body
               THEN /\ last.err = "BodyExists"
                    /\ LastLib.packages[i] = last.before.packages[i]
               ELSE /\ last.err = ""
                    /\ LastLib.packages[i].has_body
                    /\ LastLib.packages[i].files =
                           last.before.packages[i].files \cup {File(last.path)}

\* a second body, from another file and in another letter case, was rejected
C7_Witness ==
    /\ LastUnitIs("PackageBody")
    /\ last.err = "BodyExists"
    /\ \E i \in 1..Len(LastLib.packages) :
           /\ i = get_package(LastLib, last.unit.simple_name)
           /\ LastLib.packages[i].has_body
           /\ Cardinality(LastLib.packages[i].files) = 2
           /\ File(last.path) \notin LastLib.packages[i].files

\* C8: the declaration of every InstancedPackage is a DeclaredPackage of the
\* same library, added before it.
C8_DeclarationIsDeclaredPackage ==
    \A l \in LibIndices : \A j \in 1..Len(libraries[l].packages) :
        libraries[l].packages[j].kind = "InstancedPackage" =>
            /\ libraries[l].packages[j].declaration \in 1..(j - 1)
            /\ libraries[l].packages[libraries[l].packages[j].declaration].kind
                   = "DeclaredPackage"

\* C9: the mapping of a folded package instantiation has one entry per
\* association element, in order: (formal text, actual text) for a named one,
\* (0-based position, actual text) for a positional one; empty without a
\* generic map.
C9_MappingFollowsAssociations ==
    (LastUnitIs("PackageInstantiationDeclaration") /\ last.err = "") =>
        LET newpkg == LastLib.packages[Len(LastLib.packages)]
            assocs == last.unit.generic_map_aspect
        IN  /\ newpkg.kind = "InstancedPackage"
            /\ newpkg.name = last.unit.identifier
            /\ Len(newpkg.mapping) = Len(assocs)
            /\ \A j \in 1..Len(assocs) :
                   /\ newpkg.mapping[j].actual = assocs[j].actual
                   /\ IF assocs[j].formal = None
                      THEN /\ DOMAIN newpkg.mapping[j] = {"index", "actual"}
                           /\ newpkg.mapping[j].index = j - 1
                      ELSE /\ DOMAIN newpkg.mapping[j] = {"formal", "actual"}
                           /\ newpkg.mapping[j].formal = assocs[j].formal

\* an instantiation with a positional and a named association was folded in
C9_Witness ==
    /\ LastUnitIs("PackageInstantiationDeclaration")
    /\ last.err = ""
    /\ Len(last.unit.generic_map_aspect) = 2
    /\ Len(LastLib.packages[Len(LastLib.packages)].mapping) = 2

\* C10: add_library(name) fails and leaves the libraries unchanged when a
\* library of that name, in any letter case, exists; otherwise it appends one
\* new empty library at the end; so library names stay pairwise distinct
\* under case-insensitive comparison.
C10_AddLibrary ==
    /\ [](\A i, j \in LibIndices :
             i # j => Lower(libraries[i].name) # Lower(libraries[j].name))
    /\ [][last'.op = "add_library" =>
             IF \E i \in LibIndices : Lower(libraries[i].name) = Lower(last'.name)
             THEN last'.err # "" /\ libraries' = libraries
             ELSE /\ last'.err = ""
                  /\ Len(libraries') = Len(libraries) + 1
                  /\ SubSeq(libraries', 1, Len(libraries)) = libraries
                  /\ libraries'[Len(libraries')] =
                         [name |-> last'.name, packages |-> <<>>, modules |-> <<>>]]_vars

\* with two libraries in the project, a name differing only in letter case
\* from an existing one was refused
C10_Witness ==
    /\ last.op = "add_library"
    /\ last.err = "DuplicateLibrary"
    /\ Len(libraries) = 2
    /\ \E i \in LibIndices :
           libraries[i].name # last.name /\ Lower(libraries[i].name) = Lower(last.name)

\* a library of the project whose name matches the name case-insensitively
HasLibrary(libs, name) == \E i \in 1..Len(libs) : Lower(libs[i].name) = Lower(name)

\* C11: every get_library call leaves Project.libraries unchanged; it returns
\* a library whose name equals the requested name case-insensitively when the
\* project holds one, and otherwise raises and returns none.
C11_GetLibraryOnlyLooksUp ==
    [][last'.op = "get_library" =>
          /\ libraries' = libraries
          /\ IF HasLibrary(libraries, last'.name)
             THEN /\ last'.err = ""
                  /\ last'.lib \in 1..Len(libraries)
                  /\ Lower(libraries[last'.lib].name) = Lower(last'.name)
             ELSE last'.err # "" /\ last'.lib = 0]_vars

\* C12: an architecture is paired by its entity_name, compared without case:
\* the module of that name, when it has no architecture yet, gets arch_name
\* and no other module changes; when no module has that name the unit raises
\* and no module changes, whatever the architecture's own identifier is.
\* Folding a file that declares entity Foo and then architecture rtl of foo
\* into a library without a module foo leaves module Foo with arch_name rtl.
C12_ArchitecturePairsByEntityName ==
    /\ [](LastUnitIs("ArchitectureBody") =>
            LET name == NameFormat(last.unit.entity_name)
                before == last.before.modules
                after == LastLib.modules
            IN  /\ Len(after) = Len(before)
                /\ \A i \in 1..Len(before) :
                       IF Lower(before[i].name) = Lower(name)
                       THEN before[i].arch_name = <<>> =>
                                /\ last.err = ""
                                /\ after[i].arch_name = last.unit.identifier
                       ELSE after[i] = before[i]
                /\ ~HasModule(last.before, name) => last.err # "")
    /\ [][\A l \in LibIndices :
              (/\ last'.op = "add_cst" /\ last'.lib = l /\ last'.path = "foo.vhd"
               /\ ~HasModule(libraries[l], Foo))
              => \E i \in 1..Len(libraries'[l].modules) :
                     /\ libraries'[l].modules[i].name = EntityFoo.identifier
                     /\ libraries'[l].modules[i].arch_name = <<"r", "t", "l">>]_vars

\* C13: a file whose parsing fails is reported and contributes nothing, and
\* it does not stop the run: once main has ended, add_file has been entered
\* for every file that follows it.
C13_ParseFailureContained ==
    \A j \in 1..driver.entered :
        driver.files[j].parse # "ok" =>
            /\ j \in driver.reported
            /\ driver.status # "loop" => driver.entered = Len(driver.files)

\* the trees of a forest: the tree and every tree below it
RECURSIVE Subtrees(_)
Subtrees(t) ==
    {t} \cup UNION {IF t.children[i].kind = "Tree" THEN Subtrees(t.children[i]) ELSE {}
                    : i \in 1..Len(t.children)}

\* the alternatives of an _ambig as its callback finds them, shaped themselves
Shaped(alternatives) == MakeAmbigUnique_children(alternatives, 1, <<>>).children

\* the positions of the alternatives that survive: not deleteable, and equal
\* to no alternative before them
Survivors(alts) ==
    {i \in 1..Len(alts) :
        /\ ~is_deleteable(alts[i])
        /\ \A j \in 1..(i - 1) : Structure(alts[j]) # Structure(alts[i])}

\* the first operand of the expression, or NoTree when it was dropped
Operand(t) == IF Len(t.children) = 3 THEN t.children[1] ELSE NoTree

\* C14: every _ambig node of a forest the shaper was applied to is shaped into
\* its surviving alternatives (not deletable, first of its equals), in their
\* order: exactly one survivor stands in place of the node, two or more are
\* the children of an _ambig; and the shaped expression holds the shaped
\* operand.
C14_AmbigKeepsSurvivors ==
    forest.passes >= 1 =>
        /\ \A n \in Subtrees(forest.prev) :
               n.data = "_ambig" =>
                   LET alts == Shaped(n.children)
                       keep == Survivors(alts)
                       res == MakeAmbigUnique_transform(n)
                   IN  /\ Cardinality(keep) = 1 =>
                              \E i \in keep : Structure(res) = Structure(alts[i])
                       /\ Cardinality(keep) >= 2 =>
                              /\ res.data = "_ambig"
                              /\ Len(res.children) = Cardinality(keep)
                              /\ \A k \in 1..Len(res.children) :
                                     \E i \in keep :
                                         /\ Cardinality({j \in keep : j <= i}) = k
                                         /\ Structure(res.children[k]) = Structure(alts[i])
        /\ (Operand(forest.prev).kind = "Tree" /\ Operand(forest.prev).data = "_ambig") =>
               LET res == MakeAmbigUnique_transform(Operand(forest.prev)) IN
               res.kind = "Tree" => Structure(Operand(forest.out)) = Structure(res)

\* an _ambig of a function call and two equal indexed names was replaced by
\* the indexed name
C14_Witness ==
    /\ forest.passes = 1
    /\ Operand(forest.prev) =
           Ambig(<<FunctionCall("f", Literal3), IndexedName("f", Literal3),
                   IndexedName("f", Literal3)>>)
    /\ Operand(forest.out) = IndexedName("f", Literal3)

\* an _ambig of which two different alternatives survive stays an _ambig
C14_WitnessTwo ==
    /\ forest.passes = 1
    /\ Operand(forest.prev) =
           Ambig(<<SliceName("f", Literal3), FunctionCall("f", Literal3),
                   IndexedName("f", Literal3)>>)
    /\ Operand(forest.out) = Ambig(<<SliceName("f", Literal3), IndexedName("f", Literal3)>>)

\* a physical_literal on or below the tree has a unit that is no time unit
HasBadUnit(t) ==
    \E n \in Subtrees(t) :
        /\ n.data = "physical_literal"
        /\ \E u \in Subtrees(n.children[2]) : u.children[1].value \notin Units

\* the alternatives the shaped operand stands for: none when it was dropped,
\* the children of an _ambig, the operand itself otherwise
Kept(operand) ==
    IF operand.kind # "Tree" THEN <<>>
    ELSE IF operand.data = "_ambig" THEN operand.children
    ELSE <<operand>>

C16_BadUnitRemovesAlternative ==
    (forest.passes = 1 /\ Operand(forest.prev).data = "_ambig") =>
        LET alts == Operand(forest.prev).children
            kept == Kept(Operand(forest.out))
        IN  \A i \in 1..Len(alts) :
                LET res == MakeAmbigUnique_transform(alts[i])
                    present == \E k \in 1..Len(kept) : Structure(kept[k]) = Structure(res)
                IN  /\ HasBadUnit(alts[i]) => ~present
                    /\ (~HasBadUnit(alts[i]) /\ res.kind = "Tree" /\ ~is_deleteable(res))
                           => present

\* C17: an _ambig of the function_call reading and name readings (indexed_name,
\* slice_name) of f(3) is shaped into the function_call reading alone.
C17_FunctionCallPreferred ==
    LET readings == {FunctionCall("f", Literal3), IndexedName("f", Literal3),
                     SliceName("f", Literal3)}
        operand == Operand(forest.prev)
    IN  (/\ forest.passes = 1
         /\ operand.data = "_ambig"
         /\ \A i \in 1..Len(operand.children) : operand.children[i] \in readings
         /\ \E i \in 1..Len(operand.children) :
                operand.children[i] = FunctionCall("f", Literal3)
         /\ \E i \in 1..Len(operand.children) :
                operand.children[i] # FunctionCall("f", Literal3))
        => Structure(Operand(forest.out)) = FunctionCall("f", Literal3)

\* C18: the shaper applied to its own output returns a tree equal to it.
C18_ShaperIdempotent ==
    forest.passes >= 2 =>
        /\ forest.out.kind = "Tree"
        /\ Structure(forest.out) = Structure(forest.prev)

\* the first application changed the forest and left an _ambig in it, and the
\* second one returned what it was given
C18_Witness ==
    /\ forest.passes = 2
    /\ Structure(forest.prev) # Structure(forest.tree)
    /\ \E n \in Subtrees(forest.prev) : n.data = "_ambig"
    /\ Structure(forest.out) = Structure(forest.prev)

\* the paths of the nodes below a CST node, found through its fields
RECURSIVE NodesBelow(_, _)
NodesBelow(node, path) ==
    UNION {LET v == node.fields[f]
               below(n, step) == {Append(path, step)} \cup NodesBelow(n, Append(path, step))
           IN  IF v.kind = "Tree" THEN below(v, <<f, 0>>)
               ELSE IF v.kind = "list"
               THEN UNION {IF v.items[i].kind = "Tree" THEN below(v.items[i], <<f, i>>) ELSE {}
                           : i \in 1..Len(v.items)}
               ELSE {}
           : f \in 1..Len(node.fields)}

\* the node of a CST at a path
RECURSIVE NodeAt(_, _)
NodeAt(node, path) ==
    IF path = <<>> THEN node ELSE NodeAt(ChildAt(node, Head(path)), Tail(path))

C20_FormatTotal ==
    formatted.out # NoTree => formatted.out.kind = "str"

\* C21: the text format() gives for a parsed source equals the source once
\* both are normalized (lower case, comments and white space removed).
C21_RoundTrip ==
    (formatted.out # NoTree /\ formatted.node.data \in SourceKinds) =>
        /\ formatted.out.kind = "str"
        /\ normalize(formatted.out.s, 1) = normalize(Source(formatted.node), 1)

\* the InterfaceNets of the modules and packages of the project
StoredNets ==
    UNION {LET lib == libraries[l]
               mods == {lib.modules[i] : i \in 1..Len(lib.modules)}
               pkgs == {lib.packages[i] : i \in 1..Len(lib.packages)}
               lists == {m.parameters : m \in mods} \cup {m.ports : m \in mods}
                        \cup {k.parameters : k \in {q \in pkgs : q.kind = "DeclaredPackage"}}
           IN  UNION {{e \in {ls[i] : i \in 1..Len(ls)} : e.kind = "InterfaceNet"} : ls \in lists}
           : l \in 1..Len(libraries)}

\* C22: every InterfaceNet of a module's parameters or ports, or of a declared
\* package's parameters, has access constant, signal or variable and dir in,
\* out, inout, buffer or linkage.
C22_InterfaceNetDomains ==
    \A e \in StoredNets :
        /\ e.access \in {"constant", "signal", "variable"}
        /\ e.dir \in {<<"i", "n">>, <<"o", "u", "t">>, <<"i", "n", "o", "u", "t">>,
                      <<"b", "u", "f", "f", "e", "r">>,
                      <<"l", "i", "n", "k", "a", "g", "e">>}

\* the names an interface declaration declares
DeclaredNames(d) ==
    IF d.kind \in {"InterfaceConstantDeclaration", "InterfaceSignalDeclaration"}
    THEN Len(d.identifier_list) ELSE 1

\* the names the declarations of a clause before the i-th declare
RECURSIVE NamesBefore(_, _)
NamesBefore(clause, i) ==
    IF i <= 1 THEN 0 ELSE NamesBefore(clause, i - 1) + DeclaredNames(clause[i - 1])

\* the elements extracted from a clause are one per declared name, in source
\* order; those of one declaration of constants or signals are InterfaceNets
\* with its names in order that agree in access, type, default and dir
OnePerName(elements, clause) ==
    /\ Len(elements) = NamesBefore(clause, Len(clause) + 1)
    /\ \A i \in 1..Len(clause) : \A j \in 1..DeclaredNames(clause[i]) :
           LET d == clause[i]
               e == elements[NamesBefore(clause, i) + j]
               first == elements[NamesBefore(clause, i) + 1]
           IN  IF d.kind \in {"InterfaceConstantDeclaration", "InterfaceSignalDeclaration"}
               THEN /\ e.kind = "InterfaceNet"
                    /\ e.name = d.identifier_list[j]
                    /\ e.type = d.subtype_indication
                    /\ e.default = d.default
                    /\ e.access = first.access /\ e.dir = first.dir
               ELSE e.kind # "InterfaceNet"

\* C23: the parameters and ports of the module an entity declaration was
\* folded into, and the parameters of the package of a package declaration,
\* hold one element per declared name in source order, the names of one
\* declaration sharing type, default and direction.
C23_OneElementPerName ==
    (last.op = "add_cst" /\ last.err = "" /\ last.k > 0) =>
        LET lib == libraries[last.lib] IN
        /\ last.unit.kind = "EntityDeclaration" =>
               LET mod == lib.modules[Len(lib.modules)] IN
               /\ OnePerName(mod.parameters, last.unit.generic_clause)
               /\ OnePerName(mod.ports, last.unit.port_clause)
        /\ last.unit.kind = "PackageDeclaration" =>
               OnePerName(lib.packages[Len(lib.packages)].parameters,
                          last.unit.generic_clause)

\* an entity with generics n, m : integer; type t and ports b, c; d was folded
\* into three parameters and three ports
C23_Witness ==
    /\ last.op = "add_cst" /\ last.err = "" /\ last.k > 0
    /\ last.unit.kind = "EntityDeclaration"
    /\ Len(last.unit.generic_clause) = 2 /\ Len(last.unit.port_clause) = 2
    /\ DeclaredNames(last.unit.generic_clause[1]) = 2
    /\ DeclaredNames(last.unit.generic_clause[2]) = 1
    /\ DeclaredNames(last.unit.port_clause[1]) = 2
    /\ Len(libraries[1].modules[1].parameters) = 3
    /\ Len(libraries[1].modules[1].ports) = 3

\* the kinds of library unit add_cst has a branch for
SupportedKinds ==
    {"EntityDeclaration", "ArchitectureBody", "PackageDeclaration", "PackageBody",
     "PackageInstantiationDeclaration"}

\* C24: an add_cst call on a file leaves the library, and raises, as the call
\* on the file without its unsupported units does: nothing changes and nothing
\* is raised when no supported unit is left (the empty file, a file of a
\* context declaration), and the supported units before and after an
\* unsupported one are folded in.
C24_UnsupportedUnitsSkipped ==
    [][last'.op = "add_cst" =>
          \A cst \in DesignFiles :
              cst.path = last'.path =>
                  LET supported == SelectSeq(cst.design_units,
                                             LAMBDA lu : lu.kind \in SupportedKinds)
                      r == add_cst(libraries[last'.lib], cst.path, supported)
                  IN  /\ libraries'[last'.lib] = r.lib
                      /\ last'.err = r.err
                      /\ supported = <<>> => (libraries' = libraries /\ last'.err = "")]_vars

\* the file of an entity, a context declaration and a package was folded in
\* whole: the module and the package are in the library
C24_Witness ==
    /\ last.op = "add_cst" /\ last.path = "mixed.vhd" /\ last.err = "" /\ last.k = 3
    /\ \E i \in 1..Len(libraries[1].modules) :
           libraries[1].modules[i].files = {File("mixed.vhd")}
    /\ \E i \in 1..Len(libraries[1].packages) :
           libraries[1].packages[i].files = {File("mixed.vhd")}

\* a file of a context declaration alone was folded into a library that holds
\* a module
C24_WitnessContext ==
    /\ last.op = "add_cst" /\ last.path = "c.vhd" /\ last.err = ""
    /\ Len(libraries[1].modules) > 0

\* C25: a package instantiation succeeds exactly when the library receiving
\* add_cst has a package with the final simple name of the uninstantiated
\* package name, whatever prefix the name is written with (none, the library's
\* own, another library's), and the instance then refers to that package.
C25_BaseResolvedBySimpleName ==
    LastUnitIs("PackageInstantiationDeclaration") =>
        LET simple == BasePackageName(last.unit) IN
        /\ last.err = "" <=> HasPackage(last.before, simple)
        /\ last.err = "" =>
               /\ LastLib.packages[Len(LastLib.packages)].kind = "InstancedPackage"
               /\ LastLib.packages[Len(LastLib.packages)].declaration =
                      get_package(last.before, simple)

\* the tree with every _ambig replaced, from the root down, by its first
\* alternative
RECURSIVE FirstAlternatives(_)
FirstAlternatives(t) ==
    IF t.kind # "Tree" THEN t
    ELSE IF t.data = "_ambig" THEN FirstAlternatives(t.children[1])
    ELSE Tree(t.data, [i \in 1..Len(t.children) |-> FirstAlternatives(t.children[i])])

\* C26: CollapseAmbig applied to the forest MakeAmbigUnique returned gives a
\* tree without _ambig nodes, in which every _ambig that was left stands
\* replaced by its first remaining alternative, at every depth.
C26_NoAmbigHandedOn ==
    forest.passes = 1 =>
        LET handed == CollapseAmbig_transform(forest.out) IN
        /\ handed.kind = "Tree"
        /\ \A n \in Subtrees(handed) : n.data # "_ambig"
        /\ Structure(handed) = FirstAlternatives(forest.out)

\* the shaped forest kept an _ambig of two alternatives whose first one holds
\* an _ambig of two alternatives itself
C26_Witness ==
    /\ forest.passes = 1
    /\ Operand(forest.out).kind = "Tree"
    /\ Operand(forest.out).data = "_ambig"
    /\ Len(Operand(forest.out).children) >= 2
    /\ \E n \in Subtrees(Operand(forest.out).children[1]) :
           n.data = "_ambig" /\ Len(n.children) >= 2

\* C27: no file collect_files returns lies under an exclude path.
C27_ExcludedNeverReturned ==
    driver.status = "collected" =>
        \A k \in 1..Len(driver.files), j \in 1..Len(driver.exclude) :
            LET f == driver.files[k]
                ex == driver.exclude[j]
            IN  ~(Len(ex) <= Len(f) /\ SubSeq(f, 1, Len(ex)) = ex)

\* one list of modules, or of packages, extends the other: the elements it
\* had keep their position, name and kind, their files have only gained
\* elements, an arch_name that was set is the same and a body that was there
\* still is
Extends(old, new) ==
    /\ Len(new) >= Len(old)
    /\ \A i \in 1..Len(old) :
           /\ new[i].name = old[i].name
           /\ old[i].files \subseteq new[i].files
           /\ "arch_name" \in DOMAIN old[i] =>
                  (old[i].arch_name # <<>> => new[i].arch_name = old[i].arch_name)
           /\ "kind" \in DOMAIN old[i] => new[i].kind = old[i].kind
           /\ "has_body" \in DOMAIN old[i] => (old[i].has_body => new[i].has_body)

\* the names of the units of that kind among the first n units of a file
UnitNames(units, n, kinds) ==
    LET firsts == SelectSeq(SubSeq(units, 1, n), LAMBDA lu : lu.kind \in kinds)
    IN  [i \in 1..Len(firsts) |-> firsts[i].identifier]

\* C28: every call extends the project: libraries, and the modules and
\* packages of each library, keep their elements in position with their
\* names, set arch_names, bodies and files; and the modules and packages an
\* add_cst call adds are those of the units it folded in, in their order.
C28_ProjectOnlyGrows ==
    [][/\ Len(libraries') >= Len(libraries)
       /\ \A l \in 1..Len(libraries) :
              /\ libraries'[l].name = libraries[l].name
              /\ Extends(libraries[l].modules, libraries'[l].modules)
              /\ Extends(libraries[l].packages, libraries'[l].packages)
       /\ last'.op = "add_cst" =>
              LET old == libraries[last'.lib]
                  new == libraries'[last'.lib]
                  cst == CHOOSE f \in DesignFiles : f.path = last'.path
                  folded == IF last'.err = "" THEN last'.k ELSE last'.k - 1
              IN  /\ [i \in 1..(Len(new.modules) - Len(old.modules)) |->
                         new.modules[Len(old.modules) + i].name]
                     = UnitNames(cst.design_units, folded, {"EntityDeclaration"})
                  /\ [i \in 1..(Len(new.packages) - Len(old.packages)) |->
                         new.packages[Len(old.packages) + i].name]
                     = UnitNames(cst.design_units, folded,
                                 {"PackageDeclaration", "PackageInstantiationDeclaration"})]_vars

\* two libraries; in the second, an entity with its architecture and a package
\* with its body were folded in after a call that raised
C28_Witness ==
    /\ Len(libraries) = 2
    /\ \E i \in 1..Len(libraries[2].modules) : libraries[2].modules[i].arch_name # <<>>
    /\ \E i \in 1..Len(libraries[2].packages) :
           /\ libraries[2].packages[i].has_body
           /\ Cardinality(libraries[2].packages[i].files) = 2
    /\ last.op = "add_cst" /\ last.err # ""

\* C29: add_cst takes no lock, so two calls that declare the same entity (or
\* package) name and both pass the existence test before either appends both
\* return and leave two modules (packages) of that name in the library; two
\* elements of one name arise only when a caller ran its test while another
\* stood between its test and its append, never when the calls are serialised
SameNamed(seq) ==
    {p \in (DOMAIN seq) \X (DOMAIN seq) :
        p[1] < p[2] /\ Lower(seq[p[1]].name) = Lower(seq[p[2]].name)}

C29_DuplicatesOnlyWhenInterleaved ==
    /\ \A t, u \in DOMAIN threads :
           LET a == threads[t].cst.design_units[1]
               b == threads[u].cst.design_units[1]
               seq == IF a.kind = "EntityDeclaration" THEN libraries[1].modules
                      ELSE libraries[1].packages
           IN  (/\ t # u
                /\ threads[t].pc = "done" /\ threads[u].pc = "done"
                /\ a.kind = b.kind
                /\ Lower(Str(a.identifier)) = Lower(Str(b.identifier)))
               => \E p \in SameNamed(seq) :
                      Lower(seq[p[1]].name) = Lower(Str(a.identifier))
    /\ (SameNamed(libraries[1].modules) # {} \/ SameNamed(libraries[1].packages) # {})
           => \E t \in DOMAIN threads : threads[t].raced

C29_Witness ==
    /\ threads # Idle
    /\ \A t \in DOMAIN threads : threads[t].pc = "done"
    /\ SameNamed(libraries[1].modules) # {}
    /\ \E t \in DOMAIN threads : threads[t].raced

C29_WitnessSerialised ==
    /\ threads # Idle
    /\ \E t, u \in DOMAIN threads :
           /\ threads[t].pc = "done" /\ ~threads[t].raced
           /\ threads[u].pc = "raised" /\ threads[u].err = "EntityExists"

\* C30: every call of _register_array_types returns: the walk from a
\* subtype's base type through further subtypes reaches a name that is not a
\* subtype, cyclic subtype definitions included
C30_RegisterTerminates == (driver.pc = "for") ~> (driver.pc = "returned")

====
